---- MODULE Spec2Model ----
(***************************************************************************)
(* Model of the Doctor health-diary backend (Django / DRF).                *)
(*                                                                         *)
(*   authapp/tasks.py    get_comprehensive_analysis: data window, external *)
(*                       model call, forecast extraction and validation    *)
(*   authapp/views.py    HealthRecommendationView, Telegram code views     *)
(*   authapp/models.py   TelegramAuthCode                                  *)
(*   diary/models.py     Event, MealPhoto                                  *)
(*   diary/serializers.py, diary/views.py   diary endpoints                *)
(*                                                                         *)
(* Numbers (glucose values, forecast values) are fixed-point integers in   *)
(* hundredths of mmol/l: 5.5 is 550.  Dates and timestamps of the diary    *)
(* are day numbers; the Telegram clock counts minutes.                     *)
(***************************************************************************)
EXTENDS Integers, Sequences, FiniteSets, TLC

VARIABLES
    now,        \* timezone.now() of the diary, in days
    glucose,    \* GlucoseMeasurement table
    events,     \* Event table
    meds,       \* Medication table
    stress,     \* StressNote table
    photos,     \* MealPhoto table
    nextId,     \* next primary key of every table
    last,       \* the last GET /recommendations request and its response
    clock,      \* timezone.now() of the Telegram flow, in minutes
    codes,      \* TelegramAuthCode table
    telegram_id,\* Employee.telegram_id of every user
    conf,       \* the confirmation request each worker is handling
    resp,       \* the last answer to a Telegram request
    uses,       \* per TelegramAuthCode row: code, user, successful confirmations
    served,     \* the Telegram requests received so far
    lastPhoto,  \* the last MealPhoto creation attempt and its answer
    role,       \* Employee.role of every user; "none": no Employee profile
    profile,    \* User.email, User.first_name and Employee.phone of every user
    req         \* the last diary or doctor request and its answer

vars == <<now, glucose, events, meds, stress, photos, nextId, last,
          clock, codes, telegram_id, conf, resp, uses, served,
          lastPhoto, role, profile, req>>

diaryVars == <<now, glucose, events, meds, stress, photos, nextId, lastPhoto>>
telegramVars == <<clock, codes, telegram_id, conf, resp, uses, served>>

----------------------------------------------------------------------------
(* Bounds of the model *)

MaxRecords == 2     \* rows of the diary tables, all together
MaxTicks == 1       \* clock advances of the diary
MaxRequests == 4    \* Telegram requests received
MaxClockTicks == 1  \* clock advances of the Telegram flow

(* Program constants *)

WindowDays == 7
ForecastDays == 7
LowLimit == 300
HighLimit == 1500
Sentinel == 550
JitterMax == 50
ExpiryMinutes == 30

----------------------------------------------------------------------------
(* Users and employee profiles *)

Users == {"u1", "u2", "u3"}

ROLE_CHOICES == {"admin", "doctor", "user"}

\* getattr(request.user, "employee", None) is not None
HasEmployee(u) == role[u] \in ROLE_CHOICES

Employees == {u \in Users : HasEmployee(u)}

EVENT_TYPES == {"meal", "walk", "sport", "other", "medicine"}

----------------------------------------------------------------------------
(* JSON values as json.loads returns them *)

Num(x) == [k |-> "num", v |-> x]
Str == [k |-> "str", v |-> 0]
Null == [k |-> "null", v |-> 0]
BoolTrue == [k |-> "bool", v |-> 100]
NaN == [k |-> "nan", v |-> 0]

EmptyMap == [x \in {} |-> Null]

\* isinstance(value, (int, float)): bool is a subclass of int, nan is a float
IsIntOrFloat(x) == x.k \in {"num", "bool", "nan"}

\* 3 < value < 15
InRange_Strict(x) == x.k # "nan" /\ LowLimit < x.v /\ x.v < HighLimit

\* 3 <= value <= 15; every comparison with nan is false
InRange(x) == x.k # "nan" /\ LowLimit <= x.v /\ x.v <= HighLimit

----------------------------------------------------------------------------
(* Arithmetic of tasks.py on hundredths *)

\* round(num / den, 1) of a value given in hundredths, den > 0: the nearest
\* multiple of 10, an exact tie going to the even tenth
Round1Rat(num, den) ==
    LET q == num \div (10 * den)
        r == num - q * 10 * den
    IN  CASE 2 * r < 10 * den -> 10 * q
          [] 2 * r > 10 * den -> 10 * (q + 1)
          [] OTHER -> IF q % 2 = 0 THEN 10 * q ELSE 10 * (q + 1)

\* round(float(value), 1)
Round1(x) == Round1Rat(x, 1)

RECURSIVE SumOf(_, _)
\* sum(f[x] for x in S)
SumOf(f, S) ==
    IF S = {} THEN 0
    ELSE LET x == CHOOSE y \in S : TRUE
         IN  f[x] + SumOf(f, S \ {x})

----------------------------------------------------------------------------
(* get_comprehensive_analysis, steps 1-6: the data window *)

\* measured_at__gte = start_week, start_week = now - timedelta(days=7)
InWindow(ts, t) == ts >= t - WindowDays

glucose_data(e, t) ==
    {g \in glucose : g.employee = e /\ InWindow(g.measured_at, t)}

events_data(e, t) ==
    {x \in events : x.employee = e /\ InWindow(x.start_time, t)}

meds_data(e, t) ==
    {m \in meds : m.employee = e /\ InWindow(m.taken_at, t)}

stress_data(e, t) ==
    {n \in stress : n.employee = e /\ InWindow(n.noted_at, t)}

\* if not glucose_data and not events_data
InsufficientData(e, t) == glucose_data(e, t) = {} /\ events_data(e, t) = {}

\* daily_averages: date -> round(sum(values) / len(values), 1)
daily_averages(gd) ==
    [d \in {g.measured_at : g \in gd} |->
        LET day == {g \in gd : g.measured_at = d}
        IN  Round1Rat(SumOf([g \in day |-> g.value], day), Cardinality(day))]

\* the seven days starting with the day of the clock reading itself
forecast_dates_FromToday(t) == [i \in 1..ForecastDays |-> t + i - 1]

\* forecast_dates: the next 7 days, now + timedelta(days=i+1) for i in range(7)
forecast_dates(t) == [i \in 1..ForecastDays |-> t + i]

DatesOf(t) == {forecast_dates(t)[i] : i \in 1..ForecastDays}

----------------------------------------------------------------------------
(* The response text of the external model, as a sequence of tokens        *)
(* separated by white space:                                               *)
(*   text        narrative without braces or fences                        *)
(*   fence_json  the opening fence ```json                                 *)
(*   fence       a bare fence ```                                          *)
(*   obj         a brace block {...} with no } inside; bare: its text      *)
(*               starts {"YYYY-MM-DD": <digits>, as pattern 3 requires;    *)
(*               parses: what json.loads does with it; data: the mapping   *)
(*               json.loads returns                                        *)

TextTok == [t |-> "text", bare |-> FALSE, parses |-> "na", data |-> EmptyMap]
FenceJson == [t |-> "fence_json", bare |-> FALSE, parses |-> "na", data |-> EmptyMap]
Fence == [t |-> "fence", bare |-> FALSE, parses |-> "na", data |-> EmptyMap]
Obj(b, p, d) == [t |-> "obj", bare |-> b, parses |-> p, data |-> d]

\* white space between a paragraph and a block
WsTok == [t |-> "ws", bare |-> FALSE, parses |-> "na", data |-> EmptyMap]

\* a closing ``` is matched by a bare fence and by the first three characters
\* of ```json
ClosesFence(tok) == tok.t \in {"fence", "fence_json"}

\* the number of tokens pattern p consumes
PatternLen(p) == IF p = 3 THEN 1 ELSE 3

\* patterns[p] matches toks at position i
\*   1: ```json\s*(\{[^}]+\})\s*```     2: ```\s*(\{[^}]+\})\s*```
\*   3: \{["']?\d{4}-\d{2}-\d{2}["']?\s*:\s*\d+\.?\d*[^}]*\}
MatchesAt(p, toks, i) ==
    /\ i >= 1
    /\ i + PatternLen(p) - 1 <= Len(toks)
    /\ CASE p = 1 -> /\ toks[i].t = "fence_json"
                     /\ toks[i + 1].t = "obj"
                     /\ ClosesFence(toks[i + 2])
         [] p = 2 -> /\ toks[i].t = "fence"
                     /\ toks[i + 1].t = "obj"
                     /\ ClosesFence(toks[i + 2])
         [] OTHER -> toks[i].t = "obj" /\ toks[i].bare

\* re.search(pattern, full_response, re.DOTALL): the leftmost match, 0 if none
Search(p, toks) ==
    IF \E i \in 1..Len(toks) : MatchesAt(p, toks, i)
    THEN CHOOSE i \in 1..Len(toks) :
            /\ MatchesAt(p, toks, i)
            /\ \A j \in 1..(i - 1) : ~MatchesAt(p, toks, j)
    ELSE 0

NoMatch == [p |-> 0, at |-> 0]

\* the patterns tried from the last to the first
json_match_Reversed(toks) ==
    CASE Search(3, toks) # 0 -> [p |-> 3, at |-> Search(3, toks)]
      [] Search(2, toks) # 0 -> [p |-> 2, at |-> Search(2, toks)]
      [] Search(1, toks) # 0 -> [p |-> 1, at |-> Search(1, toks)]
      [] OTHER -> NoMatch

\* for pattern in patterns: json_match = re.search(...); if json_match: break
json_match(toks) ==
    CASE Search(1, toks) # 0 -> [p |-> 1, at |-> Search(1, toks)]
      [] Search(2, toks) # 0 -> [p |-> 2, at |-> Search(2, toks)]
      [] Search(3, toks) # 0 -> [p |-> 3, at |-> Search(3, toks)]
      [] OTHER -> NoMatch

\* json_match.group(1) if the pattern has a group, else json_match.group(0)
json_str(toks, m) == IF m.p = 3 THEN toks[m.at] ELSE toks[m.at + 1]

\* json_match.group(0)
Group0(toks, m) == SubSeq(toks, m.at, m.at + PatternLen(m.p) - 1)

\* a replace that removes the first occurrence only
Replace_First(toks, sub) ==
    IF \E i \in 1..(Len(toks) - Len(sub) + 1) :
            SubSeq(toks, i, i + Len(sub) - 1) = sub
    THEN LET i == CHOOSE k \in 1..(Len(toks) - Len(sub) + 1) :
                    /\ SubSeq(toks, k, k + Len(sub) - 1) = sub
                    /\ \A j \in 1..(k - 1) :
                          SubSeq(toks, j, j + Len(sub) - 1) # sub
         IN  SubSeq(toks, 1, i - 1) \o SubSeq(toks, i + Len(sub), Len(toks))
    ELSE toks

RECURSIVE Replace(_, _)
\* full_response.replace(sub, ''): every non-overlapping occurrence, left to
\* right
Replace(toks, sub) ==
    IF Len(toks) < Len(sub) THEN toks
    ELSE IF SubSeq(toks, 1, Len(sub)) = sub
         THEN Replace(SubSeq(toks, Len(sub) + 1, Len(toks)), sub)
         ELSE <<toks[1]>> \o Replace(Tail(toks), sub)

RECURSIVE Strip(_)
\* str.strip(): the white space at both ends is removed
Strip(toks) ==
    IF toks = <<>> THEN <<>>
    ELSE IF Head(toks).t = "ws" THEN Strip(Tail(toks))
    ELSE IF toks[Len(toks)].t = "ws"
         THEN Strip(SubSeq(toks, 1, Len(toks) - 1))
         ELSE toks

----------------------------------------------------------------------------
(* get_comprehensive_analysis, step 9: forecast extraction *)

\* the variation applied three times
SynthValue_Wide(avgs, variation) ==
    IF DOMAIN avgs # {}
    THEN LET n == Cardinality(DOMAIN avgs)
         IN  Round1Rat(SumOf(avgs, DOMAIN avgs) + 3 * variation * n, n)
    ELSE Round1(Sentinel + 3 * variation)

\* avg_glucose + variation, rounded to 1 decimal; avg_glucose is the mean of
\* the daily averages, or 5.5 when there is none
SynthValue(avgs, variation) ==
    IF DOMAIN avgs # {}
    THEN LET n == Cardinality(DOMAIN avgs)
         IN  Round1Rat(SumOf(avgs, DOMAIN avgs) + variation * n, n)
    ELSE Round1(Sentinel + variation)

\* the else branch of "if json_match": random.uniform(-0.5, 0.5) per date
SynthForecast(avgs, t, jit) ==
    [d \in DatesOf(t) |-> Num(SynthValue(avgs, jit[d - t]))]

\* a handler of JSONDecodeError that answers 5.5 for every date
DecodeErrorForecast_Sentinel(avgs, t) == [d \in DatesOf(t) |-> Num(Sentinel)]

\* except json.JSONDecodeError: round(avg_glucose, 1) for every date
DecodeErrorForecast(avgs, t) ==
    [d \in DatesOf(t) |-> Num(SynthValue(avgs, 0))]

\* except Exception: 5.5 for every date
OtherErrorForecast(t) == [d \in DatesOf(t) |-> Num(Sentinel)]

\* step 9 as a whole: forecast_data, analysis_text and the branch taken
ExtractForecast(toks, avgs, t, jit) ==
    LET m == json_match(toks)
    IN  IF m = NoMatch
        THEN [forecast_data |-> SynthForecast(avgs, t, jit),
              analysis_text |-> toks, path |-> "synth"]
        ELSE LET js == json_str(toks, m)
             IN  CASE js.parses = "ok" ->
                        [forecast_data |-> js.data,
                         analysis_text |->
                             Strip(Replace(toks, Group0(toks, m))),
                         path |-> "parsed"]
                   [] js.parses = "decode_error" ->
                        [forecast_data |-> DecodeErrorForecast(avgs, t),
                         analysis_text |-> toks, path |-> "decode_error"]
                   [] OTHER ->
                        [forecast_data |-> OtherErrorForecast(t),
                         analysis_text |-> toks, path |-> "other_error"]

----------------------------------------------------------------------------
(* get_comprehensive_analysis, step 10: forecast validation *)

\* validation without the range check
ValidatedValue_Unchecked(fd, d) ==
    IF d \in DOMAIN fd
    THEN IF IsIntOrFloat(fd[d])
         THEN Num(Round1(fd[d].v))
         ELSE Num(Sentinel)
    ELSE Num(Sentinel)

\* validation clamping an out-of-range number to the nearest bound
ValidatedValue_Clamp(fd, d) ==
    IF d \in DOMAIN fd
    THEN IF IsIntOrFloat(fd[d]) /\ fd[d].k # "nan"
         THEN IF fd[d].v < LowLimit THEN Num(LowLimit)
              ELSE IF fd[d].v > HighLimit THEN Num(HighLimit)
              ELSE Num(Round1(fd[d].v))
         ELSE Num(Sentinel)
    ELSE Num(Sentinel)

\* the value validated_forecast gets for one forecast date
ValidatedValue(fd, d) ==
    IF d \in DOMAIN fd
    THEN IF IsIntOrFloat(fd[d]) /\ InRange(fd[d])
         THEN Num(Round1(fd[d].v))
         ELSE Num(Sentinel)
    ELSE Num(Sentinel)

validated_forecast(fd, t) == [d \in DatesOf(t) |-> ValidatedValue(fd, d)]

----------------------------------------------------------------------------
(* get_comprehensive_analysis as a whole *)

\* what the external model call does:
\*   init_error     get_openai_client raises (no API key)
\*   request_error  client.chat.completions.create raises
\*   no_content     the response has no text, .strip() raises
\*   text           the response text, tokens
CallFails(o) == o.kind # "text"

empty_forecast(t) == [d \in DatesOf(t) |-> Null]

\* the error handler answering with the empty forecast
error_forecast_Null(t2) == [d \in DatesOf(t2) |-> Null]

\* the outer except: the clock is read again, t2 >= the first reading
error_forecast(t2) == [d \in DatesOf(t2) |-> Num(Sentinel)]

\* glucose_count, events_count, meds_count, stress_count as logged
Counts(e, t) ==
    [glucose |-> Cardinality(glucose_data(e, t)),
     events |-> Cardinality(events_data(e, t)),
     meds |-> Cardinality(meds_data(e, t)),
     stress |-> Cardinality(stress_data(e, t))]

NoCounts == [glucose |-> 0, events |-> 0, meds |-> 0, stress |-> 0]

\* a handler that enters step 8 once more after a failed call
ModelCalls_Retry(o) == IF CallFails(o) THEN 2 ELSE 1

\* the times step 8 is entered by a request that has data: the try block is
\* in no loop, its except re-raises, and neither the fallbacks of step 9 nor
\* the outer except call the model again
ModelCalls(o) == 1

\* the result, with the locals the function logs on its way: the counts, the
\* daily averages, forecast_data before validation, the branch taken and the
\* number of times step 8 (the external call) was entered
get_comprehensive_analysis(e, t, o, jit, t2) ==
    IF InsufficientData(e, t)
    THEN [analysis |-> [kind |-> "insufficient", text |-> <<>>],
          chart_data |-> empty_forecast(t),
          counts |-> Counts(e, t), daily_averages |-> EmptyMap,
          forecast_data |-> EmptyMap,
          path |-> "insufficient", model_calls |-> 0]
    ELSE IF CallFails(o)
    THEN [analysis |-> [kind |-> "error", text |-> <<>>],
          chart_data |-> error_forecast(t2),
          counts |-> Counts(e, t),
          daily_averages |-> daily_averages(glucose_data(e, t)),
          forecast_data |-> EmptyMap,
          path |-> "error", model_calls |-> ModelCalls(o)]
    ELSE LET avgs == daily_averages(glucose_data(e, t))
             x == ExtractForecast(o.tokens, avgs, t, jit)
         IN  [analysis |-> [kind |-> "text", text |-> x.analysis_text],
              chart_data |-> validated_forecast(x.forecast_data, t),
              counts |-> Counts(e, t), daily_averages |-> avgs,
              forecast_data |-> x.forecast_data,
              path |-> x.path, model_calls |-> ModelCalls(o)]

\* HealthRecommendationView.get: status and body
HealthRecommendationView_get(u, t, o, jit, t2) ==
    IF ~HasEmployee(u)
    THEN [status |-> 404, analysis |-> [kind |-> "none", text |-> <<>>],
          chart_data |-> EmptyMap, counts |-> NoCounts,
          daily_averages |-> EmptyMap, forecast_data |-> EmptyMap,
          path |-> "no_profile", model_calls |-> 0]
    ELSE [status |-> 200] @@ get_comprehensive_analysis(u, t, o, jit, t2)

----------------------------------------------------------------------------
(* Inputs *)

\* glucose values a client posts (3.2, 6.15 and 20.0 mmol/l)
GlucoseVals == {320, 615, 2000}

\* timestamps a client posts: older than the window, current, or of tomorrow
\* (start_time and taken_at are DateTimeFields the request body sets)
ClientTimes(t) == {t - WindowDays - 1, t, t + 1}

\* event types the clients of the model post
InputTypes == {"meal", "walk"}

\* values of random.uniform(-0.5, 0.5)
Jitter == {0 - JitterMax, 0, JitterMax}

\* the same variation on every date
FlatJitters == {[i \in 1..ForecastDays |-> j] : j \in Jitter}

\* one date with a variation of its own
Jitters ==
    {[i \in 1..ForecastDays |-> IF i = k THEN j2 ELSE j1] :
        j1 \in Jitter, j2 \in Jitter, k \in 1..ForecastDays}

ZeroJitter == [i \in 1..ForecastDays |-> 0]

Absent == [k |-> "absent", v |-> 0]

\* the values of a forecast block
JsonVals == {Absent, Num(299), Num(300), Num(734), Num(1496), Num(1500),
             Num(1501), Str, Null, BoolTrue, NaN}

BaseVals == {Absent, Num(734), Num(1501), Str}

\* the keys of a forecast block: the forecast dates and one date after them
BlockKeys(t) == DatesOf(t) \cup {t + ForecastDays + 1}

\* a block with value base on every key but k, and v on k
Block(t, base, k, v) ==
    LET val(d) == IF d = k THEN v ELSE base
        keys == {d \in BlockKeys(t) : val(d) # Absent}
    IN  [d \in keys |-> val(d)]

Blocks(t) ==
    {Block(t, base, k, v) : base \in BaseVals, k \in BlockKeys(t), v \in JsonVals}

GoodBlock(t) == Block(t, Num(620), t + 1, Num(620))

Text(toks) == [kind |-> "text", tokens |-> toks]

Failure(k) == [kind |-> k, tokens |-> <<>>]

Failures == {Failure("init_error"), Failure("request_error"), Failure("no_content")}

\* responses whose block fails to parse, or that have no block at all
BrokenTexts(t) ==
    {Text(<<TextTok>>),
     Text(<<TextTok, Obj(FALSE, "ok", GoodBlock(t))>>),
     Text(<<FenceJson, Obj(FALSE, "decode_error", EmptyMap), Fence>>),
     Text(<<Fence, Obj(TRUE, "decode_error", EmptyMap), Fence>>),
     Text(<<TextTok, Obj(TRUE, "other_error", EmptyMap)>>)}

\* responses with a block of every shape, in each of the three notations
BlockTexts(t) ==
    {Text(<<FenceJson, Obj(FALSE, "ok", d), Fence>>) : d \in Blocks(t)}
    \cup {Text(<<TextTok, Fence, Obj(TRUE, "ok", d), Fence>>) : d \in Blocks(t)}
    \cup {Text(<<TextTok, Obj(TRUE, "ok", d)>>) : d \in Blocks(t)}

\* responses with two blocks: the first fenced json block is the one read,
\* also when a generic fenced block precedes it
TwoBlockTexts(t) ==
    {Text(<<FenceJson, Obj(FALSE, "ok", d), Fence,
            FenceJson, Obj(FALSE, "ok", GoodBlock(t)), Fence>>) :
        d \in {Block(t, Num(734), t + 2, v) : v \in {Num(299), Absent}}}
    \cup
    {Text(<<Fence, Obj(FALSE, "ok", GoodBlock(t)), Fence,
            FenceJson, Obj(FALSE, "ok", d), Fence>>) :
        d \in {Block(t, Num(734), t + 2, v) : v \in {Num(299), Absent}}}

\* responses in which a later pattern matches before, or better than, the
\* first pattern that matches: a fenced json block that does not parse
\* before a bare object that does, and a bare object before a fenced block
OrderTexts(t) ==
    {Text(<<FenceJson, Obj(FALSE, "decode_error", EmptyMap), Fence,
            TextTok, Obj(TRUE, "ok", GoodBlock(t))>>),
     Text(<<Obj(TRUE, "ok", GoodBlock(t)), TextTok,
            Fence, Obj(FALSE, "ok", Block(t, Num(734), t + 2, Num(734))),
            Fence>>)}

\* responses whose block is followed and preceded by text: a block after
\* white space, the same block twice, a bare object inside a paragraph
RemovalTexts(t) ==
    {Text(<<TextTok, WsTok, FenceJson, Obj(FALSE, "ok", GoodBlock(t)), Fence>>),
     Text(<<FenceJson, Obj(FALSE, "ok", GoodBlock(t)), Fence, TextTok,
            FenceJson, Obj(FALSE, "ok", GoodBlock(t)), Fence, WsTok, TextTok>>),
     Text(<<TextTok, Obj(TRUE, "ok", GoodBlock(t)), TextTok>>)}

\* the outcomes of the external call used with the full diary
CoreOutcomes(t) ==
    Failures \cup BrokenTexts(t)
    \cup {Text(<<FenceJson, Obj(FALSE, "ok", GoodBlock(t)), Fence>>)}

\* the outcomes of the external call used to exercise extraction
RichOutcomes(t) ==
    Failures \cup BrokenTexts(t) \cup BlockTexts(t) \cup TwoBlockTexts(t)
    \cup OrderTexts(t) \cup RemovalTexts(t)

----------------------------------------------------------------------------
(* Initial state *)

NoRequest ==
    [status |-> 0, user |-> "u1", at |-> 0, outcome |-> Failure("none"),
     jit |-> ZeroJitter, at2 |-> 0,
     analysis |-> [kind |-> "none", text |-> <<>>],
     chart_data |-> EmptyMap, counts |-> NoCounts,
     daily_averages |-> EmptyMap, forecast_data |-> EmptyMap,
     path |-> "none", model_calls |-> 0]

Tables == {"glucose", "events", "meds", "stress", "photos", "codes"}

\* the request workers of the server
Workers == {"w1", "w2"}

\* the codes random.choices can draw
CodeStrings == {"A", "B"}

\* Telegram accounts
TgIds == {"t1", "t2"}

NoRecord == [id |-> 0, code |-> "", user |-> "u1", created_at |-> 0,
             is_used |-> FALSE]

Idle == [pc |-> "idle", code |-> "", tg |-> "", rec |-> NoRecord]

NoAnswer == [view |-> "none", code |-> "", tg |-> "", answer |-> "none"]


\* meal = NULL on a MealPhoto (the column is nullable)
NoMeal == 0

\* a request body without the field meal
AbsentMeal == -1

\* no MealPhoto creation was attempted yet
NoAttempt == [via |-> "none", meal |-> NoMeal, image |-> FALSE, answer |-> "none"]

InitTelegram ==
    /\ clock = 0
    /\ codes = {}
    /\ telegram_id = [u \in Users |-> "null"]
    /\ conf = [w \in Workers |-> Idle]
    /\ resp = NoAnswer
    /\ uses = [i \in {} |-> [code |-> "", count |-> 0]]
    /\ served = 0

\* no diary or doctor request was answered yet
NoReq == [who |-> "none", op |-> "none", tb |-> "none", status |-> 0,
          owners |-> {}]

\* the profile fields of an account nobody has updated yet
NoProfile == [email |-> "old", first_name |-> "old", phone |-> "old"]

InitUsers ==
    /\ role = [u \in Users |-> IF u = "u3" THEN "none" ELSE "user"]
    /\ profile = [u \in Users |-> NoProfile]

Init ==
    /\ now = 0
    /\ glucose = {}
    /\ events = {}
    /\ meds = {}
    /\ stress = {}
    /\ photos = {}
    /\ nextId = [tb \in Tables |-> 1]
    /\ last = NoRequest
    /\ lastPhoto = NoAttempt
    /\ req = NoReq
    /\ InitUsers
    /\ InitTelegram

----------------------------------------------------------------------------
(* Diary endpoints used by the analysis *)

\* the rows the analysis reads, over all four tables
DiaryRows ==
    Cardinality(glucose) + Cardinality(events) + Cardinality(meds)
        + Cardinality(stress)

\* the number of advances that led to day t (each is 1 or WindowDays + 1 days)
TicksOf(t) == (t \div (WindowDays + 1)) + (t % (WindowDays + 1))

\* the clock advances by a day, or past a whole window
Tick ==
    /\ TicksOf(now) < MaxTicks
    /\ \E d \in {1, WindowDays + 1} : now' = now + d
    /\ UNCHANGED <<glucose, events, meds, stress, photos, nextId, last,
                   lastPhoto, role, profile, req>>
    /\ UNCHANGED telegramVars

\* POST /glucose/: BaseEmployeeViewSet.perform_create, measured_at auto_now_add
GlucoseCreate(u, v) ==
    /\ HasEmployee(u)
    /\ DiaryRows < MaxRecords
    /\ glucose' = glucose \cup
          {[id |-> nextId["glucose"], employee |-> u, value |-> v,
            measured_at |-> now]}
    /\ nextId' = [nextId EXCEPT !["glucose"] = @ + 1]
    /\ UNCHANGED <<now, events, meds, stress, photos, last, lastPhoto, role, profile, req>>
    /\ UNCHANGED telegramVars

\* POST /medications/: taken_at is given by the client
MedicationCreate(u, ts) ==
    /\ HasEmployee(u)
    /\ DiaryRows < MaxRecords
    /\ meds' = meds \cup
          {[id |-> nextId["meds"], employee |-> u, taken_at |-> ts]}
    /\ nextId' = [nextId EXCEPT !["meds"] = @ + 1]
    /\ UNCHANGED <<now, glucose, events, stress, photos, last, lastPhoto, role, profile, req>>
    /\ UNCHANGED telegramVars

\* POST /stress-notes/: noted_at auto_now_add
StressNoteCreate(u) ==
    /\ HasEmployee(u)
    /\ DiaryRows < MaxRecords
    /\ stress' = stress \cup
          {[id |-> nextId["stress"], employee |-> u, noted_at |-> now]}
    /\ nextId' = [nextId EXCEPT !["stress"] = @ + 1]
    /\ UNCHANGED <<now, glucose, events, meds, photos, last, lastPhoto, role, profile, req>>
    /\ UNCHANGED telegramVars

\* POST /events/: EventSerializer.create; a MealPhoto is stored with the
\* event when an image comes with an event of type meal
EventCreate(u, ty, st, image) ==
    /\ HasEmployee(u)
    /\ DiaryRows < MaxRecords
    /\ events' = events \cup
          {[id |-> nextId["events"], employee |-> u, type |-> ty,
            start_time |-> st]}
    /\ IF image /\ ty = "meal"
       THEN /\ photos' = photos \cup
                  {[id |-> nextId["photos"], employee |-> u,
                    meal |-> nextId["events"]]}
            /\ nextId' = [nextId EXCEPT !["events"] = @ + 1,
                                        !["photos"] = @ + 1]
       ELSE /\ photos' = photos
            /\ nextId' = [nextId EXCEPT !["events"] = @ + 1]
    /\ UNCHANGED <<now, glucose, meds, stress, last, lastPhoto, role, profile, req>>
    /\ UNCHANGED telegramVars

----------------------------------------------------------------------------
(* GET /recommendations/ *)

\* the request as recorded: the inputs the run consumed, and the response
Recorded(u, o, jit, t2, r) ==
    [status |-> r.status, user |-> u, at |-> now,
     outcome |-> IF r.model_calls > 0 THEN o ELSE Failure("none"),
     jit |-> IF r.path = "synth" THEN jit ELSE ZeroJitter,
     at2 |-> IF r.path = "error" THEN t2 ELSE now,
     analysis |-> r.analysis, chart_data |-> r.chart_data,
     counts |-> r.counts, daily_averages |-> r.daily_averages,
     forecast_data |-> r.forecast_data,
     path |-> r.path, model_calls |-> r.model_calls]

\* HealthRecommendationView.get for user u; the external call answers with
\* one of outs, random.uniform draws one of jits, the clock may pass midnight
\* before the error handler reads it.  Inputs a run does not consume are not
\* enumerated.  The client has one request outstanding at a time.
Recommend(outs, jits) ==
  /\ last = NoRequest
  /\ \E u \in Users :
      \E o \in IF HasEmployee(u) /\ ~InsufficientData(u, now)
               THEN outs ELSE {Failure("none")} :
        \E p \in {HealthRecommendationView_get(u, now, o, ZeroJitter, now).path} :
          \E jit \in IF p = "synth" THEN jits ELSE {ZeroJitter},
             t2 \in IF p = "error" THEN {now, now + 1} ELSE {now} :
            \E r \in {HealthRecommendationView_get(u, now, o, jit, t2)} :
              /\ last' = Recorded(u, o, jit, t2, r)
              /\ UNCHANGED <<now, glucose, events, meds, stress, photos,
                             nextId, lastPhoto, role, profile, req>>
              /\ UNCHANGED telegramVars

HealthRecommendation == Recommend(CoreOutcomes(now), FlatJitters)

\* the client has read the response
ReceiveRecommendation ==
    /\ last # NoRequest
    /\ last' = NoRequest
    /\ UNCHANGED <<now, glucose, events, meds, stress, photos, nextId,
                   lastPhoto, role, profile, req>>
    /\ UNCHANGED telegramVars

----------------------------------------------------------------------------
(* The diary with the analysis endpoint *)

GlucosePost == \E u \in Users, v \in GlucoseVals : GlucoseCreate(u, v)

MedicationPost == \E u \in Users, ts \in ClientTimes(now) : MedicationCreate(u, ts)

StressNotePost == \E u \in Users : StressNoteCreate(u)

EventPost ==
    \E u \in Users, ty \in InputTypes, st \in ClientTimes(now) :
        EventCreate(u, ty, st, FALSE)

Next ==
    \/ Tick
    \/ GlucosePost
    \/ EventPost
    \/ MedicationPost
    \/ StressNotePost
    \/ HealthRecommendation
    \/ ReceiveRecommendation

Spec == Init /\ [][Next]_vars

----------------------------------------------------------------------------
(* Forecast extraction and validation over a given history: the diary of   *)
(* u1 holds up to MaxRecords glucose measurements of today and yesterday   *)
(* and possibly one event, and the external model answers with every       *)
(* response of RichOutcomes.                                               *)

InitForecast ==
    /\ now = 1
    /\ \E n \in 0..MaxRecords :
         \E vals \in [1..n -> GlucoseVals], days \in [1..n -> {0, 1}] :
            /\ glucose = {[id |-> i, employee |-> "u1", value |-> vals[i],
                           measured_at |-> days[i]] : i \in 1..n}
            /\ \E hasEvent \in BOOLEAN :
                 /\ events = IF hasEvent
                             THEN {[id |-> 1, employee |-> "u1",
                                    type |-> "meal", start_time |-> 1]}
                             ELSE {}
                 /\ nextId = [tb \in Tables |->
                                CASE tb = "glucose" -> n + 1
                                  [] tb = "events" -> IF hasEvent THEN 2 ELSE 1
                                  [] OTHER -> 1]
    /\ meds = {}
    /\ stress = {}
    /\ photos = {}
    /\ last = NoRequest
    /\ lastPhoto = NoAttempt
    /\ req = NoReq
    /\ InitUsers
    /\ InitTelegram

ForecastRecommendation == Recommend(RichOutcomes(now), Jitters)

NextForecast ==
    \/ ForecastRecommendation
    \/ ReceiveRecommendation

SpecForecast == InitForecast /\ [][NextForecast]_vars

----------------------------------------------------------------------------
(* Properties of the analysis pipeline *)

\* the branches of step 9, all of which lead to validation
ValidatedPaths == {"parsed", "synth", "decode_error", "other_error"}

\* the branches that do not read a forecast block
FallbackPaths == {"synth", "decode_error", "other_error"}

\* the seven days after day t
SevenDaysAfter(t) == {t + i : i \in 1..7}

\* C1: whenever the analysis reaches forecast validation, chart_data has
\* exactly one entry for each of the 7 forecast dates and no other key, and
\* every value is a number within [3, 15], whatever the response was.
C1_ChartWithinLimits ==
    last.path \in ValidatedPaths =>
        /\ DOMAIN last.chart_data = SevenDaysAfter(last.at)
        /\ Cardinality(DOMAIN last.chart_data) = 7
        /\ \A d \in DOMAIN last.chart_data :
              /\ last.chart_data[d].k = "num"
              /\ 300 <= last.chart_data[d].v
              /\ last.chart_data[d].v <= 1500

\* a parsed block with a key that is no forecast date, a forecast date
\* missing and a value that is no number
C1_Witness ==
    /\ last.path = "parsed"
    /\ \E d \in DOMAIN last.forecast_data : d \notin SevenDaysAfter(last.at)
    /\ \E d \in SevenDaysAfter(last.at) : d \notin DOMAIN last.forecast_data
    /\ \E d \in DOMAIN last.forecast_data : last.forecast_data[d].k = "nan"

\* C2: the insufficient-data response (seven forecast dates, all null) is
\* returned, without the external model being called, exactly when the
\* employee has no glucose measurement and no event in the trailing 7 days
\* (stamped from now - 7 days up to now), whatever medication and stress
\* records exist; otherwise the model is called.
C2_ShortCircuit ==
    [][(last = NoRequest /\ last' # NoRequest /\ last'.status = 200) =>
        LET u == last'.user
            g == {x \in glucose : /\ x.employee = u
                                   /\ now - x.measured_at <= 7
                                   /\ x.measured_at <= now}
            ev == {x \in events : /\ x.employee = u
                                  /\ now - x.start_time <= 7
                                  /\ x.start_time <= now}
        IN  IF g = {} /\ ev = {}
            THEN /\ last'.path = "insufficient"
                 /\ last'.analysis.kind = "insufficient"
                 /\ last'.model_calls = 0
                 /\ last'.chart_data = [d \in SevenDaysAfter(now) |-> Null]
            ELSE /\ last'.path # "insufficient"
                 /\ last'.analysis.kind # "insufficient"
                 /\ last'.model_calls = 1]_vars

\* C3: when the external call fails, the exception is not propagated: the
\* analysis is the templated error message, chart_data holds 5.5 for each of
\* 7 consecutive dates after the day the handler reads the clock, and the
\* view answers 200.
C3_CallFailureAbsorbed ==
    (last.status # 0 /\ last.outcome.kind
        \in {"init_error", "request_error", "no_content"}) =>
        /\ last.status = 200
        /\ last.analysis.kind = "error"
        /\ last.at2 \in {last.at, last.at + 1}
        /\ last.chart_data = [d \in SevenDaysAfter(last.at2) |-> Num(550)]

\* a request whose client initialisation raised
C3_Witness ==
    /\ last.status = 200
    /\ last.outcome.kind = "init_error"
    /\ last.path = "error"

\* the first fenced json block of a response, <<>> if there is none
FencedJsonBlocks(toks) ==
    {i \in 1..Len(toks) :
        /\ i + 2 <= Len(toks)
        /\ toks[i].t = "fence_json"
        /\ toks[i + 1].t = "obj"
        /\ toks[i + 2].t \in {"fence", "fence_json"}}

NearMean(v, avgs) ==
    LET n == Cardinality(DOMAIN avgs)
        sum == SumOf(avgs, DOMAIN avgs)
        diff == n * v - sum
    IN  /\ diff <= n * 55
        /\ 0 - diff <= n * 55

\* C5 as stated: without a parseable block every forecast date has a number,
\* which is 5.5 or a value derived from the historical daily averages.
C5_SentinelOrHistory ==
    last.path \in FallbackPaths =>
        \A d \in SevenDaysAfter(last.at) :
            /\ d \in DOMAIN last.chart_data
            /\ last.chart_data[d].k = "num"
            /\ \/ last.chart_data[d].v = 550
               \/ /\ DOMAIN last.daily_averages # {}
                  /\ NearMean(last.chart_data[d].v, last.daily_averages)

\* C5 as amended: without a parseable block every forecast date has a
\* number, which is 5.5 or within 0.5 (before rounding) of the base: the mean
\* of the historical daily averages, or 5.5 when there is no daily average.
C5_FallbackNumeric ==
    last.path \in FallbackPaths =>
        /\ DOMAIN last.chart_data = SevenDaysAfter(last.at)
        /\ \A d \in SevenDaysAfter(last.at) :
            /\ last.chart_data[d].k = "num"
            /\ \/ last.chart_data[d].v = 550
               \/ /\ DOMAIN last.daily_averages # {}
                  /\ NearMean(last.chart_data[d].v, last.daily_averages)
               \/ /\ DOMAIN last.daily_averages = {}
                  /\ last.chart_data[d].v - 550 <= 55
                  /\ 550 - last.chart_data[d].v <= 55

\* no block in the response and no glucose in the window: a date gets 5.5
\* plus the jitter
C5_Witness ==
    /\ last.path = "synth"
    /\ DOMAIN last.daily_averages = {}
    /\ \E d \in SevenDaysAfter(last.at) : last.chart_data[d] = Num(600)
    /\ \E d \in SevenDaysAfter(last.at) : last.chart_data[d] = Num(500)

\* the entry of forecast_data for date d is a number within [3, 15]
ValidEntry(fd, d) ==
    /\ d \in DOMAIN fd
    /\ fd[d].k = "num"
    /\ 300 <= fd[d].v
    /\ fd[d].v <= 1500

\* C6: validation replaces an entry by exactly 5.5, never by the nearest
\* bound, when the date is missing or its value is no number, below 3 or
\* above 15, whether forecast_data came from the model or from the fallback;
\* the other entries keep their own values (rounded to 1 decimal).
C6_SentinelPerDate ==
    last.path \in ValidatedPaths =>
        \A d \in SevenDaysAfter(last.at) :
            IF ValidEntry(last.forecast_data, d)
            THEN last.chart_data[d] = Num(Round1(last.forecast_data[d].v))
            ELSE last.chart_data[d] = Num(550)

\* a fallback forecast around 3.2 of which one date fell below 3 and became
\* 5.5 while the others kept their value
C6_Witness ==
    /\ last.path = "synth"
    /\ \E d \in SevenDaysAfter(last.at) :
          /\ last.forecast_data[d] = Num(270)
          /\ last.chart_data[d] = Num(550)
    /\ \E d \in SevenDaysAfter(last.at) :
          /\ last.forecast_data[d] = Num(320)
          /\ last.chart_data[d] = Num(320)

----------------------------------------------------------------------------
(* Telegram codes: TelegramAuthCode, GenerateTelegramCodeView,             *)
(* ConfirmTelegramCodeView.  The server handles requests in several        *)
(* workers and runs no transaction, so a confirmation is a sequence of     *)
(* database statements: the lookup, the delete and the save of the         *)
(* Employee.                                                               *)

\* the number of advances that led to minute t (each is ExpiryMinutes or one
\* minute more)
ClockTicksOf(t) == t \div ExpiryMinutes

\* the clock advances by the validity window, or by a minute more
ClockTick ==
    /\ ClockTicksOf(clock) < MaxClockTicks
    /\ \E d \in {ExpiryMinutes, ExpiryMinutes + 1} : clock' = clock + d
    /\ UNCHANGED <<codes, telegram_id, conf, resp, uses, served, last, role, profile, req>>
    /\ UNCHANGED diaryVars

\* cls.objects.filter(user=user, is_used=False).update(is_used=True)
MarkUsed(rows, u) ==
    {IF r.user = u THEN [r EXCEPT !.is_used = TRUE] ELSE r : r \in rows}

\* TelegramAuthCode.generate_for_user as GenerateTelegramCodeView.get calls
\* it; c is the string random.choices draws.  The column is unique: drawing
\* the code of an existing row raises after the update went through.
GenerateCode(u, c) ==
    /\ served < MaxRequests
    /\ served' = served + 1
    /\ IF \E r \in codes : r.code = c
       THEN /\ codes' = MarkUsed(codes, u)
            /\ resp' = [view |-> "generate", code |-> c, tg |-> "", answer |-> "server_error"]
            /\ UNCHANGED <<nextId, uses>>
       ELSE /\ codes' = MarkUsed(codes, u) \cup
                  {[id |-> nextId["codes"], code |-> c, user |-> u,
                    created_at |-> clock, is_used |-> FALSE]}
            /\ nextId' = [nextId EXCEPT !["codes"] = @ + 1]
            /\ uses' = (nextId["codes"] :>
                            [code |-> c, count |-> 0, user |-> u]) @@ uses
            /\ resp' = [view |-> "generate", code |-> c, tg |-> "", answer |-> "created"]
    /\ UNCHANGED <<clock, telegram_id, conf, last, role, profile, req>>
    /\ UNCHANGED <<now, glucose, events, meds, stress, photos, lastPhoto>>

\* ConfirmTelegramCodeView.post up to the lookup of verify_code:
\* cls.objects.get(code=code)
ConfirmLookup(w, c, tg) ==
    /\ conf[w].pc = "idle"
    /\ served < MaxRequests
    /\ served' = served + 1
    /\ IF c = "" \/ tg = ""
       THEN /\ resp' = [view |-> "confirm", code |-> c, tg |-> tg, answer |-> "missing_fields"]
            /\ conf' = conf
       ELSE IF ~\E r \in codes : r.code = c
       THEN /\ resp' = [view |-> "confirm", code |-> c, tg |-> tg, answer |-> "invalid_code"]
            /\ conf' = conf
       ELSE /\ conf' = [conf EXCEPT ![w] =
                          [pc |-> "fetched", code |-> c, tg |-> tg,
                           rec |-> CHOOSE r \in codes : r.code = c]]
            /\ resp' = resp
    /\ UNCHANGED <<clock, codes, telegram_id, uses, last, role, profile, req>>
    /\ UNCHANGED diaryVars

\* a window of an hour
Expired_Hour(rec, t) == t - rec.created_at > 2 * ExpiryMinutes

\* timezone.now() - record.created_at > timedelta(minutes=30)
Expired(rec, t) == t - rec.created_at > ExpiryMinutes

\* the delete forgotten
DeleteRow_Keep(rows, rec) == rows

\* record.delete(): by primary key, a row already gone is no error
DeleteRow(rows, rec) == {r \in rows : r.id # rec.id}

\* verify_code after the lookup: the age test and the delete
ConfirmVerify(w) ==
    /\ conf[w].pc = "fetched"
    /\ codes' = DeleteRow(codes, conf[w].rec)
    /\ IF Expired(conf[w].rec, clock)
       THEN /\ resp' = [view |-> "confirm", code |-> conf[w].code,
                            tg |-> conf[w].tg, answer |-> "invalid_code"]
            /\ conf' = [conf EXCEPT ![w] = Idle]
       ELSE /\ conf' = [conf EXCEPT ![w].pc = "verified"]
            /\ resp' = resp
    /\ UNCHANGED <<clock, telegram_id, uses, served, last, role, profile, req>>
    /\ UNCHANGED diaryVars

\* ConfirmTelegramCodeView.post after verify_code returned the user:
\* user.employee.telegram_id = telegram_id; user.employee.save(); 200.
\* A user without Employee profile raises (500).
ConfirmBind(w) ==
    /\ conf[w].pc = "verified"
    /\ LET u == conf[w].rec.user
       IN  IF HasEmployee(u)
           THEN /\ telegram_id' = [telegram_id EXCEPT ![u] = conf[w].tg]
                /\ resp' = [view |-> "confirm", code |-> conf[w].code,
                            tg |-> conf[w].tg, answer |-> "ok"]
                /\ uses' = [uses EXCEPT ![conf[w].rec.id].count = @ + 1]
           ELSE /\ resp' = [view |-> "confirm", code |-> conf[w].code,
                            tg |-> conf[w].tg, answer |-> "server_error"]
                /\ UNCHANGED <<telegram_id, uses>>
    /\ conf' = [conf EXCEPT ![w] = Idle]
    /\ UNCHANGED <<clock, codes, served, last, role, profile, req>>
    /\ UNCHANGED diaryVars

GenerateTelegramCode == \E u \in Users, c \in CodeStrings : GenerateCode(u, c)

\* the bodies of the confirmation requests: every code with every Telegram
\* account, and bodies lacking one of the two fields
ConfirmBodies ==
    (CodeStrings \X TgIds) \cup {<<"", "t1">>, <<"A", "">>}

ConfirmTelegramCode ==
    \E w \in Workers, b \in ConfirmBodies : ConfirmLookup(w, b[1], b[2])

ConfirmTelegramCodeVerify == \E w \in Workers : ConfirmVerify(w)

ConfirmTelegramCodeBind == \E w \in Workers : ConfirmBind(w)

NextTelegram ==
    \/ ClockTick
    \/ GenerateTelegramCode
    \/ ConfirmTelegramCode
    \/ ConfirmTelegramCodeVerify
    \/ ConfirmTelegramCodeBind

SpecTelegram == Init /\ [][NextTelegram]_vars

----------------------------------------------------------------------------
(* Properties of the Telegram codes *)

\* the code string c has been confirmed successfully and no code with the
\* same string has been generated after the confirmed one
Spent(c) ==
    \E i \in DOMAIN uses :
        /\ uses[i].code = c
        /\ uses[i].count > 0
        /\ \A j \in DOMAIN uses : uses[j].code = c => j <= i

\* this step receives a confirmation request and answers it at once
AnsweredAtOnce ==
    /\ served' = served + 1
    /\ resp'.view = "confirm"
    /\ conf' = conf

\* C7: a TelegramAuthCode is usable once: a confirmation request (a code and
\* a Telegram ID) that arrives after a request with the same code succeeded
\* is answered 'invalid or expired code' and binds no Telegram ID, unless a
\* new code with the same string was generated; in particular no lookup
\* returns a row that already made a confirmation succeed.
C7_SingleUse ==
    [][/\ \A w \in Workers :
            (conf[w].pc = "idle" /\ conf'[w].pc = "fetched") =>
                /\ ~Spent(conf'[w].code)
                /\ uses[conf'[w].rec.id].count = 0
       /\ (AnsweredAtOnce /\ Spent(resp'.code) /\ resp'.tg # "") =>
            /\ resp'.answer = "invalid_code"
            /\ telegram_id' = telegram_id
            /\ codes' = codes]_vars

\* a code was confirmed, and the last request, which carried the same code,
\* was turned down by the lookup (at minute 0 no code has expired)
C7_Witness ==
    /\ clock = 0
    /\ resp.view = "confirm"
    /\ resp.answer = "invalid_code"
    /\ resp.tg # ""
    /\ Spent(resp.code)
    /\ \A w \in Workers : conf[w].pc = "idle"
    /\ \E u \in Users : telegram_id[u] # "null"

\* C8: of two confirmation requests with the same valid code that are
\* handled concurrently, at most one succeeds: no TelegramAuthCode row makes
\* more than one confirmation succeed.
C8_AtMostOneSuccess ==
    \A i \in DOMAIN uses : uses[i].count <= 1

----------------------------------------------------------------------------
(* MealPhoto creation *)

\* most MealPhoto rows
MaxPhotos == 2

\* the Event row a primary key refers to
EventOf(id) == CHOOSE e \in events : e.id = id

\* MealPhoto.save without its test of the event type
MealPhoto_save_Unchecked(meal) == "saved"

\* MealPhoto.save: a photo of an event that is not a meal raises ValueError
MealPhoto_save(meal) ==
    IF meal # NoMeal /\ EventOf(meal).type # "meal"
    THEN "ValueError"
    ELSE "saved"

\* MealPhotoSerializer.validate_meal: value.type of an explicit null raises
\* AttributeError
validate_meal(value) ==
    IF value = NoMeal THEN "AttributeError"
    ELSE IF EventOf(value).type # "meal" THEN "ValidationError"
    ELSE "valid"

\* the answer of POST /meal-photos/: the fields are validated in the order
\* meal, image (an exception other than ValidationError ends the request),
\* then perform_create reads request.user.employee and saves
MealPhotoAnswer(u, meal, image) ==
    IF meal = NoMeal /\ validate_meal(meal) = "AttributeError"
    THEN "server_error"
    ELSE IF \/ ~image
            \/ meal > NoMeal /\ meal \notin {e.id : e \in events}
            \/ meal > NoMeal /\ validate_meal(meal) = "ValidationError"
    THEN "validation_error"
    ELSE IF ~HasEmployee(u) THEN "server_error"
    ELSE IF meal > NoMeal /\ MealPhoto_save(meal) = "ValueError"
    THEN "server_error"
    ELSE "created"

\* the MealPhoto row a successful creation stores
NewPhoto(u, meal) ==
    [id |-> nextId["photos"], employee |-> u,
     meal |-> IF meal = AbsentMeal THEN NoMeal ELSE meal]

\* POST /meal-photos/: MealPhotoViewSet.create
MealPhotoCreate(u, meal, image) ==
    /\ Cardinality(photos) < MaxPhotos
    /\ lastPhoto' = [via |-> "serializer", meal |-> meal, image |-> image,
                     answer |-> MealPhotoAnswer(u, meal, image)]
    /\ IF MealPhotoAnswer(u, meal, image) = "created"
       THEN /\ photos' = photos \cup {NewPhoto(u, meal)}
            /\ nextId' = [nextId EXCEPT !["photos"] = @ + 1]
       ELSE UNCHANGED <<photos, nextId>>
    /\ UNCHANGED <<now, glucose, events, meds, stress, last, role, profile, req>>
    /\ UNCHANGED telegramVars

\* MealPhoto.objects.create(employee, meal): the model's own entry point
MealPhotoObjectsCreate(u, meal) ==
    /\ HasEmployee(u)
    /\ Cardinality(photos) < MaxPhotos
    /\ IF MealPhoto_save(meal) = "ValueError"
       THEN /\ lastPhoto' = [via |-> "model", meal |-> meal, image |-> TRUE,
                             answer |-> "value_error"]
            /\ UNCHANGED <<photos, nextId>>
       ELSE /\ lastPhoto' = [via |-> "model", meal |-> meal, image |-> TRUE,
                             answer |-> "created"]
            /\ photos' = photos \cup {NewPhoto(u, meal)}
            /\ nextId' = [nextId EXCEPT !["photos"] = @ + 1]
    /\ UNCHANGED <<now, glucose, events, meds, stress, last, role, profile, req>>
    /\ UNCHANGED telegramVars

\* an Event.objects.create that stores the event with the default type
MealEventType_Other == "other"

\* Event.objects.create(..., type='meal', ...)
MealEventType == "meal"

\* POST /events/create_meal_with_photo/: without an image 400 before the
\* analysis is called; with a failed analysis 500; then request.user.employee
\* and the float() conversions of the numbers sent can raise (500); then
\* Event.objects.create stores the Event and MealPhoto.objects.create, whose
\* save tests the type of the Event, stores the MealPhoto.  No transaction
\* spans the two.
create_meal_with_photo(u, image, success, numbers) ==
    /\ DiaryRows < MaxRecords
    /\ Cardinality(photos) < MaxPhotos
    /\ IF ~image
       THEN /\ lastPhoto' = [via |-> "meal_with_photo", meal |-> NoMeal,
                             image |-> image, success |-> success,
                             analysed |-> FALSE,
                             answer |-> "validation_error"]
            /\ UNCHANGED <<events, photos, nextId>>
       ELSE IF ~success \/ ~HasEmployee(u) \/ ~numbers
       THEN /\ lastPhoto' = [via |-> "meal_with_photo", meal |-> NoMeal,
                             image |-> image, success |-> success,
                             analysed |-> TRUE,
                             answer |-> "server_error"]
            /\ UNCHANGED <<events, photos, nextId>>
       ELSE /\ events' = events \cup
                  {[id |-> nextId["events"], employee |-> u,
                    type |-> MealEventType, start_time |-> now]}
            /\ IF MealEventType # "meal"
               THEN /\ lastPhoto' = [via |-> "meal_with_photo",
                                     meal |-> nextId["events"],
                                     image |-> image, success |-> success,
                                     analysed |-> TRUE,
                                     answer |-> "server_error"]
                    /\ nextId' = [nextId EXCEPT !["events"] = @ + 1]
                    /\ UNCHANGED photos
               ELSE /\ lastPhoto' = [via |-> "meal_with_photo",
                                     meal |-> nextId["events"],
                                     image |-> image, success |-> success,
                                     analysed |-> TRUE,
                                     answer |-> "created"]
                    /\ photos' = photos \cup {NewPhoto(u, nextId["events"])}
                    /\ nextId' = [nextId EXCEPT !["events"] = @ + 1,
                                                !["photos"] = @ + 1]
    /\ UNCHANGED <<now, glucose, meds, stress, last, role, profile, req>>
    /\ UNCHANGED telegramVars

\* the values of meal a client can send: none, null, an Event, a key of no row
MealInputs == {AbsentMeal, NoMeal, nextId["events"]} \cup {e.id : e \in events}

EventWithImagePost ==
    \E u \in Users, ty \in InputTypes, image \in BOOLEAN :
        EventCreate(u, ty, now, image)

MealWithPhotoPost ==
    \E u \in Users, image \in BOOLEAN, success \in BOOLEAN :
        create_meal_with_photo(u, image, success, TRUE)

MealPhotoPost ==
    \E u \in Users, meal \in MealInputs, image \in BOOLEAN :
        MealPhotoCreate(u, meal, image)

MealPhotoSave ==
    \E u \in Users, meal \in {NoMeal} \cup {e.id : e \in events} :
        MealPhotoObjectsCreate(u, meal)

NextDiary ==
    \/ EventWithImagePost
    \/ MealWithPhotoPost
    \/ MealPhotoPost
    \/ MealPhotoSave

SpecDiary == Init /\ [][NextDiary]_vars

\* the Event a MealPhoto creation attempt referred to, if it is not a meal
NonMealAttempt(attempt) ==
    \E e \in events : e.id = attempt.meal /\ e.type # "meal"

\* C10: an attempt to create a MealPhoto that references an Event whose type
\* is not 'meal' is rejected, by MealPhotoSerializer with a validation error
\* and by MealPhoto.save with ValueError, and stores no MealPhoto; no step
\* stores a MealPhoto of an Event that is not a meal.
C10_NonMealRejected ==
    [][/\ (lastPhoto' # lastPhoto /\ NonMealAttempt(lastPhoto')) =>
            /\ lastPhoto'.via = "serializer" =>
                    lastPhoto'.answer = "validation_error"
            /\ lastPhoto'.via = "model" => lastPhoto'.answer = "value_error"
            /\ photos' = photos
       /\ \A p \in photos' \ photos :
            \/ p.meal = NoMeal
            \/ \E e \in events' : e.id = p.meal /\ e.type = "meal"]_vars

\* the last request posted a MealPhoto with an image for an Event that is
\* not a meal: it was answered with a validation error and the Event has no
\* MealPhoto
C10_Witness ==
    /\ lastPhoto.via = "serializer"
    /\ lastPhoto.image
    /\ lastPhoto.answer = "validation_error"
    /\ NonMealAttempt(lastPhoto)
    /\ \A p \in photos : p.meal # lastPhoto.meal

----------------------------------------------------------------------------
(* Diary viewsets (BaseEmployeeViewSet) and the doctor endpoints *)

\* who sends a request: a user with a token, or nobody ("anon")
Requesters == Users \cup {"anon"}

\* the diary resources of the model: events and meal photos (the viewsets
\* of glucose, medications, stress notes and reminders inherit the same
\* get_queryset and permission classes and have no nested rows)
CrudTables == {"events", "photos"}

Rows(tb) == IF tb = "events" THEN events ELSE photos

is_authenticated(u) == u \in Users

IsDoctor(u) == HasEmployee(u) /\ role[u] = "doctor"

\* IsOwnerOrDoctor.has_object_permission
has_object_permission(u, obj) == IsDoctor(u) \/ obj.employee = u

\* BaseEmployeeViewSet.get_queryset; user.employee raises without a profile
get_queryset(u, tb) ==
    IF IsDoctor(u) THEN Rows(tb)
    ELSE {r \in Rows(tb) : r.employee = u}

\* the rows a response body holds: EventSerializer nests the photos of the
\* event
Shown(tb, rs) ==
    IF tb = "events"
    THEN rs \cup {ph \in photos : ph.meal \in {e.id : e \in rs}}
    ELSE rs

\* the answer to a request and the owners of the rows of its body
Answer(u, op, tb, status, rs) ==
    [who |-> u, op |-> op, tb |-> tb, status |-> status,
     owners |-> {r.employee : r \in rs}]

\* what precedes every detail handler: authentication, get_queryset,
\* get_object (404) and check_object_permissions (403); 0: the handler runs
LookupStatus(u, tb, id) ==
    IF ~is_authenticated(u) THEN 401
    ELSE IF ~HasEmployee(u) THEN 500
    ELSE IF id \notin {r.id : r \in get_queryset(u, tb)} THEN 404
    ELSE IF ~has_object_permission(u, CHOOSE r \in Rows(tb) : r.id = id)
    THEN 403
    ELSE 0

RowOf(tb, id) == CHOOSE r \in Rows(tb) : r.id = id

\* GET /<resource>/
DiaryList(u, tb) ==
    /\ req' = IF ~is_authenticated(u) THEN Answer(u, "list", tb, 401, {})
              ELSE IF ~HasEmployee(u) THEN Answer(u, "list", tb, 500, {})
              ELSE Answer(u, "list", tb, 200, Shown(tb, get_queryset(u, tb)))
    /\ UNCHANGED <<now, glucose, events, meds, stress, photos, nextId, last,
                   lastPhoto, role, profile>>
    /\ UNCHANGED telegramVars

\* GET /<resource>/<id>/
DiaryRetrieve(u, tb, id) ==
    /\ req' = IF LookupStatus(u, tb, id) # 0
              THEN Answer(u, "retrieve", tb, LookupStatus(u, tb, id), {})
              ELSE Answer(u, "retrieve", tb, 200,
                          Shown(tb, {RowOf(tb, id)}))
    /\ UNCHANGED <<now, glucose, events, meds, stress, photos, nextId, last,
                   lastPhoto, role, profile>>
    /\ UNCHANGED telegramVars

\* the answer of PATCH /meal-photos/<id>/ with the field meal
PhotoUpdateStatus(meal) ==
    IF meal = AbsentMeal THEN 200
    ELSE IF meal = NoMeal THEN 500
    ELSE IF meal \notin {e.id : e \in events} THEN 400
    ELSE IF validate_meal(meal) = "ValidationError" THEN 400
    ELSE IF MealPhoto_save(meal) = "ValueError" THEN 500
    ELSE 200

\* PATCH /<resource>/<id>/: employee is read-only, the serializer of the
\* resource validates the field and the row is saved
DiaryUpdate(u, tb, id, val) ==
    /\ IF LookupStatus(u, tb, id) # 0
       THEN /\ req' = Answer(u, "update", tb, LookupStatus(u, tb, id), {})
            /\ UNCHANGED <<events, photos>>
       ELSE LET old == RowOf(tb, id) IN
            CASE tb = "events" ->
                    /\ events' = (events \ {old}) \cup
                                   {[old EXCEPT !.type = val]}
                    /\ req' = Answer(u, "update", tb, 200,
                                     Shown(tb, {old}))
                    /\ UNCHANGED photos
              [] tb = "photos" ->
                    /\ req' = Answer(u, "update", tb,
                                     PhotoUpdateStatus(val),
                                     IF PhotoUpdateStatus(val) = 200
                                     THEN {old} ELSE {})
                    /\ photos' = IF PhotoUpdateStatus(val) = 200
                                     /\ val # AbsentMeal
                                  THEN (photos \ {old}) \cup
                                         {[old EXCEPT !.meal = val]}
                                  ELSE photos
                    /\ UNCHANGED events
    /\ UNCHANGED <<now, glucose, meds, stress, nextId, last, lastPhoto,
                   role, profile>>
    /\ UNCHANGED telegramVars

\* DELETE /<resource>/<id>/: the photos of a deleted event go with it
\* (on_delete=CASCADE)
DiaryDestroy(u, tb, id) ==
    /\ IF LookupStatus(u, tb, id) # 0
       THEN /\ req' = Answer(u, "destroy", tb, LookupStatus(u, tb, id), {})
            /\ UNCHANGED <<events, photos>>
       ELSE /\ req' = Answer(u, "destroy", tb, 204, {})
            /\ events' = IF tb = "events"
                          THEN events \ {RowOf(tb, id)} ELSE events
            /\ photos' = IF tb = "photos" THEN photos \ {RowOf(tb, id)}
                          ELSE {ph \in photos : ph.meal # id}
    /\ UNCHANGED <<now, glucose, meds, stress, nextId, last, lastPhoto,
                   role, profile>>
    /\ UNCHANGED telegramVars

\* a permission that also admits the role admin
IsDoctorPermission_Staff(u) ==
    is_authenticated(u) /\ HasEmployee(u) /\ role[u] \in {"doctor", "admin"}

\* IsDoctorPermission.has_permission
IsDoctorPermission(u) ==
    is_authenticated(u) /\ HasEmployee(u) /\ role[u] = "doctor"

\* the list routes under /doctor/
DoctorEndpoints ==
    {"patients", "glucose", "events", "medications", "stress-notes",
     "dashboard"}

\* DoctorPatientViewSet.get_queryset: Employee.objects.filter(role='user')
Patients == {e \in Users : role[e] = "user"}

\* the rows a doctor list route returns (the dashboard returns totals only)
DoctorRows(ep) ==
    CASE ep = "patients" -> {[employee |-> e] : e \in Patients}
      [] ep = "glucose" -> glucose
      [] ep = "events" -> Shown("events", events)
      [] ep = "medications" -> meds
      [] ep = "stress-notes" -> stress
      [] OTHER -> {}

\* a request the permission class turns down: 401 without credentials
Denied(u) == IF is_authenticated(u) THEN 403 ELSE 401

\* GET /doctor/<endpoint>/
DoctorList(u, ep) ==
    /\ req' = IF IsDoctorPermission(u)
              THEN Answer(u, "doctor", ep, 200, DoctorRows(ep))
              ELSE Answer(u, "doctor", ep, Denied(u), {})
    /\ UNCHANGED <<now, glucose, events, meds, stress, photos, nextId, last,
                   lastPhoto, role, profile>>
    /\ UNCHANGED telegramVars

\* GET /doctor/patients/<pk>/ and /doctor/patients/<pk>/statistics/:
\* get_object looks the patient up among the employees with role user
DoctorPatient(u, ep, pt) ==
    /\ req' = IF ~IsDoctorPermission(u)
              THEN Answer(u, "doctor", ep, Denied(u), {})
              ELSE IF pt \notin Patients
              THEN Answer(u, "doctor", ep, 404, {})
              ELSE Answer(u, "doctor", ep, 200, {[employee |-> pt]})
    /\ UNCHANGED <<now, glucose, events, meds, stress, photos, nextId, last,
                   lastPhoto, role, profile>>
    /\ UNCHANGED telegramVars

\* the users of the access model: two patients, an admin beside a doctor,
\* or a patient beside a doctor; the third account has no Employee profile
AccessRoles ==
    {<<"user", "user">>, <<"admin", "doctor">>, <<"user", "doctor">>}

InitAccess ==
    /\ now = 0
    /\ glucose = {}
    /\ events = {}
    /\ meds = {}
    /\ stress = {}
    /\ photos = {}
    /\ nextId = [tb \in Tables |-> 1]
    /\ last = NoRequest
    /\ lastPhoto = NoAttempt
    /\ req = NoReq
    /\ \E rs \in AccessRoles :
          role = [u \in Users |-> IF u = "u1" THEN rs[1]
                                  ELSE IF u = "u2" THEN rs[2] ELSE "none"]
    /\ profile = [u \in Users |-> NoProfile]
    /\ InitTelegram

\* keys a client can name: those of the rows and one of no row
KeysOf(tb) == {r.id : r \in Rows(tb)} \cup {nextId[tb]}

\* values a client can send for the field a PATCH changes
PatchValues(tb) == IF tb = "events" THEN InputTypes ELSE MealInputs

AccessEventPost ==
    /\ req = NoReq /\ lastPhoto = NoAttempt
    /\ nextId["events"] <= MaxRecords
    /\ \E u \in Users, ty \in InputTypes :
          \E image \in {FALSE, nextId["photos"] <= MaxPhotos} :
              EventCreate(u, ty, now, image)

AccessPhotoPost ==
    /\ req = NoReq /\ lastPhoto = NoAttempt
    /\ nextId["photos"] <= MaxPhotos
    /\ \E u \in Users, meal \in {e.id : e \in events} :
          MealPhotoCreate(u, meal, TRUE)

DiaryListGet ==
    /\ req = NoReq /\ lastPhoto = NoAttempt
    /\ \E u \in Requesters, tb \in CrudTables : DiaryList(u, tb)

DiaryRetrieveGet ==
    /\ req = NoReq /\ lastPhoto = NoAttempt
    /\ \E u \in Requesters, tb \in CrudTables :
           \E id \in KeysOf(tb) : DiaryRetrieve(u, tb, id)

DiaryPatch ==
    /\ req = NoReq /\ lastPhoto = NoAttempt
    /\ \E u \in Requesters, tb \in CrudTables :
           \E id \in KeysOf(tb), val \in PatchValues(tb) :
               DiaryUpdate(u, tb, id, val)

DiaryDelete ==
    /\ req = NoReq /\ lastPhoto = NoAttempt
    /\ \E u \in Requesters, tb \in CrudTables :
           \E id \in KeysOf(tb) : DiaryDestroy(u, tb, id)

DoctorListGet ==
    /\ req = NoReq /\ lastPhoto = NoAttempt
    /\ \E u \in Requesters, ep \in DoctorEndpoints : DoctorList(u, ep)

DoctorPatientGet ==
    /\ req = NoReq /\ lastPhoto = NoAttempt
    /\ \E u \in Requesters, ep \in {"patient", "statistics"}, pt \in Users :
           DoctorPatient(u, ep, pt)

\* the client has read the answer; the next request can be sent
ReceiveAnswer ==
    /\ req # NoReq \/ lastPhoto # NoAttempt
    /\ req' = NoReq
    /\ lastPhoto' = NoAttempt
    /\ UNCHANGED <<now, glucose, events, meds, stress, photos, nextId, last,
                   role, profile>>
    /\ UNCHANGED telegramVars

NextAccess ==
    \/ AccessEventPost
    \/ AccessPhotoPost
    \/ DiaryListGet
    \/ DiaryRetrieveGet
    \/ DiaryPatch
    \/ DiaryDelete
    \/ DoctorListGet
    \/ DoctorPatientGet
    \/ ReceiveAnswer

SpecAccess == InitAccess /\ [][NextAccess]_vars

----------------------------------------------------------------------------
(* Claims about the diary viewsets and the doctor endpoints *)

\* C11: in every reachable state every stored MealPhoto whose meal is set
\* references an Event of type 'meal', also after the type of an Event that
\* has photos was updated.
C11_PhotosOfMeals ==
    \A ph \in photos :
        ph.meal # NoMeal =>
            \E e \in events : e.id = ph.meal /\ e.type = "meal"

\* the rows of a table that belong to somebody else than u
OthersRows(u, rows) == {r \in rows : r.employee # u}

\* this step changes or removes no Event and no MealPhoto of somebody else
OthersUntouched(u) ==
    /\ OthersRows(u, events) \subseteq events'
    /\ OthersRows(u, photos) \subseteq photos'

\* this step answers a request to a diary viewset
DiaryRequest ==
    /\ req' # NoReq
    /\ req'.op \in {"list", "retrieve", "update", "destroy"}
    /\ req'.who \in Users

\* C12: a requester whose role is 'user' or 'admin' lists, retrieves,
\* updates and deletes only records whose employee is the requester's own
\* profile: the body of every answer holds own records only and the request
\* changes or removes no record of another employee; a requester with role
\* 'doctor' is shown the records of all employees.
C12_OwnRecordsOnly ==
    [][DiaryRequest =>
         /\ role[req'.who] \in {"user", "admin"} =>
               /\ req'.owners \subseteq {req'.who}
               /\ OthersUntouched(req'.who)
         /\ (role[req'.who] = "doctor" /\ req'.op = "list") =>
               /\ req'.status = 200
               /\ req'.owners =
                     {r.employee : r \in Shown(req'.tb, Rows(req'.tb))}]_vars

\* C13: no request of a doctor, on the doctor endpoints or on the diary
\* endpoints, changes or removes a record of another employee.
C13_DoctorReadOnly ==
    [][(/\ req' # NoReq
        /\ req'.who \in Users
        /\ role[req'.who] = "doctor") => OthersUntouched(req'.who)]_vars

\* C14: every doctor endpoint turns down a requester without credentials,
\* without Employee profile or with a role other than 'doctor', admin
\* included, and shows it no record; the patients list holds employees with
\* role 'user' only.
C14_DoctorEndpointsGuarded ==
    req.op = "doctor" =>
        /\ ~(req.who \in Users /\ role[req.who] = "doctor") =>
              /\ req.status \in {401, 403}
              /\ req.owners = {}
        /\ (req.tb = "patients" /\ req.status = 200) =>
              \A o \in req.owners : role[o] = "user"

\* an admin asked for the patients list and was turned down
C14_Witness ==
    /\ req.op = "doctor"
    /\ req.tb = "patients"
    /\ req.who \in Users
    /\ role[req.who] = "admin"
    /\ req.status = 403
    /\ req.owners = {}

----------------------------------------------------------------------------
(* Food photo analysis: analyze_food_image and the endpoints that call it *)

\* what the request to the vision model comes to: a reply that parses, a
\* timeout, a transport error, a reply that is no JSON, any other exception
AnalysisOutcomes == {"ok", "timeout", "transport", "bad_json", "other"}

\* analyze_food_image: every exception is caught and becomes success=False
analyze_food_image(outcome) == [success |-> outcome = "ok"]

\* the status of POST /events/preview_meal/ once the image was validated
PreviewStatus(outcome) ==
    IF analyze_food_image(outcome).success THEN 200 ELSE 500

\* POST /events/preview_meal/: 400 for an invalid image, else the analysis;
\* nothing is stored
preview_meal(u, image, outcome) ==
    /\ req' = [who |-> u, op |-> "preview_meal", tb |-> "events",
               status |-> IF image THEN PreviewStatus(outcome) ELSE 400,
               owners |-> {},
               analysis |-> IF image THEN outcome ELSE "not_run"]
    /\ UNCHANGED <<now, glucose, events, meds, stress, photos, nextId, last,
                   lastPhoto, role, profile>>
    /\ UNCHANGED telegramVars

PreviewMealPost ==
    \E u \in Users, image \in BOOLEAN, outcome \in AnalysisOutcomes :
        preview_meal(u, image, outcome)

AnalysedMealPost ==
    \E u \in Users, image \in BOOLEAN, outcome \in AnalysisOutcomes :
        create_meal_with_photo(u, image, analyze_food_image(outcome).success,
                               TRUE)

NextMeal ==
    \/ PreviewMealPost
    \/ AnalysedMealPost
    \/ EventWithImagePost

SpecMeal == Init /\ [][NextMeal]_vars

\* C15: when the analysis of the food photo fails, preview_meal and
\* create_meal_with_photo still answer with a success status (200, 201) and
\* not with an error status.
C15_AnalysisFailureAbsorbed ==
    [][/\ (/\ req' # req
           /\ req'.op = "preview_meal"
           /\ req'.analysis \in AnalysisOutcomes \ {"ok"}) =>
                req'.status = 200
       /\ (/\ lastPhoto' # lastPhoto
           /\ lastPhoto'.via = "meal_with_photo"
           /\ lastPhoto'.image
           /\ ~lastPhoto'.success) =>
                lastPhoto'.answer = "created"]_vars

----------------------------------------------------------------------------
(* Event.save: the end_time derived from start_time and duration.  In this *)
(* part start_time and end_time count minutes; an absent value is Null.    *)

\* start_time, end_time and duration as the clients of the model send them
StartTimes == {600}
EndTimeInputs == {Null, Num(0), Num(630)}
DurationInputs == {Null, Num(0), Num(30), Num(45)}

\* a save that derives end_time whenever a duration is there
Event_save_Always(e) ==
    IF e.duration # Null /\ e.duration.v # 0
    THEN [e EXCEPT !.end_time = Num(e.start_time + e.duration.v)]
    ELSE e

\* Event.save: if not self.end_time and self.duration (None and 0 are
\* falsy, a datetime never is)
Event_save(e) ==
    IF e.end_time = Null /\ e.duration # Null /\ e.duration.v # 0
    THEN [e EXCEPT !.end_time = Num(e.start_time + e.duration.v)]
    ELSE e

\* the answer to a request that saved an Event: the instance as it was
\* handed to save and the row that was stored
Saved(u, op, status, e, row) ==
    [who |-> u, op |-> op, tb |-> "events", status |-> status,
     owners |-> {u}, sent |-> e, row |-> row]

\* POST /events/ with start_time, end_time and duration
EventSaveCreate(u, st, et, dur) ==
    /\ HasEmployee(u)
    /\ DiaryRows < MaxRecords
    /\ LET e == [id |-> nextId["events"], employee |-> u, type |-> "walk",
                 start_time |-> st, end_time |-> et, duration |-> dur]
       IN /\ events' = events \cup {Event_save(e)}
          /\ req' = Saved(u, "event_create", 201, e, Event_save(e))
    /\ nextId' = [nextId EXCEPT !["events"] = @ + 1]
    /\ UNCHANGED <<now, glucose, meds, stress, photos, last, lastPhoto, role, profile>>
    /\ UNCHANGED telegramVars

\* PATCH /events/<id>/ by the owner: the fields that were sent are set on
\* the stored instance, which is saved again
EventSaveUpdate(u, id, et, dur) ==
    /\ LookupStatus(u, "events", id) = 0
    /\ LET old == RowOf("events", id)
           e == [old EXCEPT
                   !.end_time = IF et = Absent THEN @ ELSE et,
                   !.duration = IF dur = Absent THEN @ ELSE dur]
       IN /\ events' = (events \ {old}) \cup {Event_save(e)}
          /\ req' = Saved(u, "event_update", 200, e, Event_save(e))
    /\ UNCHANGED <<now, glucose, meds, stress, photos, nextId, last,
                   lastPhoto, role, profile>>
    /\ UNCHANGED telegramVars

EventSavePost ==
    /\ req = NoReq
    /\ nextId["events"] <= MaxRecords
    /\ \E st \in StartTimes, et \in EndTimeInputs, dur \in DurationInputs :
          EventSaveCreate("u1", st, et, dur)

EventSavePatch ==
    /\ req = NoReq
    /\ \E e \in events :
          \E et \in EndTimeInputs \cup {Absent},
             dur \in DurationInputs \cup {Absent} :
              EventSaveUpdate("u1", e.id, et, dur)

NextEventSave ==
    \/ EventSavePost
    \/ EventSavePatch
    \/ ReceiveAnswer

SpecEventSave == Init /\ [][NextEventSave]_vars

\* C16: an Event saved with no end_time and a positive duration gets
\* end_time = start_time + duration minutes; a supplied end_time is stored
\* unchanged; with neither end_time nor duration end_time stays null.
C16_EndTimeDerived ==
    req.op \in {"event_create", "event_update"} =>
        /\ req.row \in events
        /\ (/\ req.sent.end_time = Null
            /\ req.sent.duration # Null
            /\ req.sent.duration.v > 0) =>
                req.row.end_time =
                    Num(req.sent.start_time + req.sent.duration.v)
        /\ req.sent.end_time # Null => req.row.end_time = req.sent.end_time
        /\ (req.sent.end_time = Null /\ req.sent.duration = Null) =>
                req.row.end_time = Null

\* an Event was posted with a duration of 30 minutes and no end_time and
\* was stored with the end_time 30 minutes after its start
C16_Witness ==
    /\ req.op = "event_create"
    /\ req.sent.end_time = Null
    /\ req.sent.duration = Num(30)
    /\ req.row.end_time = Num(req.sent.start_time + 30)
    /\ req.row \in events

----------------------------------------------------------------------------
(* Further claims about get_comprehensive_analysis *)

HasMatch(p, toks) == \E i \in 1..Len(toks) : MatchesAt(p, toks, i)

\* the first of the three patterns, in their fixed order, that matches; 0 if
\* none does
FirstPattern(toks) ==
    IF HasMatch(1, toks) THEN 1
    ELSE IF HasMatch(2, toks) THEN 2
    ELSE IF HasMatch(3, toks) THEN 3
    ELSE 0

\* the object in the leftmost match of pattern p
MatchedObject(p, toks) ==
    LET i == CHOOSE k \in 1..Len(toks) :
                /\ MatchesAt(p, toks, k)
                /\ \A j \in 1..(k - 1) : ~MatchesAt(p, toks, j)
    IN  IF p = 3 THEN toks[i] ELSE toks[i + 1]

\* C18: extraction uses the first of the patterns fenced json block, fenced
\* generic block, bare date-keyed object that matches, also when a later
\* pattern matches too; when the text it matched does not parse the later
\* patterns are not tried and the fallback forecast is used.
C18_FirstPatternWins ==
    last.path \in ValidatedPaths =>
        LET toks == last.outcome.tokens
            p == FirstPattern(toks)
        IN  IF p = 0 THEN last.path = "synth"
            ELSE IF MatchedObject(p, toks).parses = "ok"
            THEN /\ last.path = "parsed"
                 /\ last.forecast_data = MatchedObject(p, toks).data
            ELSE /\ last.path \in {"decode_error", "other_error"}
                 /\ \A q \in 1..3 :
                       (HasMatch(q, toks)
                          /\ MatchedObject(q, toks).parses = "ok") =>
                            last.forecast_data # MatchedObject(q, toks).data

\* the fenced json block of the response did not parse and the bare object
\* after it, which parses, was not read
C18_Witness ==
    /\ last.path = "decode_error"
    /\ FirstPattern(last.outcome.tokens) = 1
    /\ HasMatch(3, last.outcome.tokens)
    /\ MatchedObject(3, last.outcome.tokens).parses = "ok"
    /\ last.forecast_data # MatchedObject(3, last.outcome.tokens).data

\* v is within 0.5 of the base, up to the rounding to 1 decimal: the base is
\* the mean of the daily averages, or 5.5 when there is none
NearBase(v, avgs) ==
    IF DOMAIN avgs # {} THEN NearMean(v, avgs)
    ELSE v - 550 <= 55 /\ 550 - v <= 55

\* v is the base rounded to 1 decimal
IsBase(v, avgs) ==
    IF DOMAIN avgs # {}
    THEN LET n == Cardinality(DOMAIN avgs)
             sum == SumOf(avgs, DOMAIN avgs)
         IN  n * v - sum <= n * 5 /\ sum - n * v <= n * 5
    ELSE v = 550

\* C19 as stated: when no pattern matches or parsing raises, the value
\* synthesized for every forecast date is the base plus a jitter of at most
\* 0.5 in absolute value.
C19_BasePlusJitter ==
    last.path \in FallbackPaths =>
        /\ DOMAIN last.forecast_data = SevenDaysAfter(last.at)
        /\ \A d \in SevenDaysAfter(last.at) :
              /\ last.forecast_data[d].k = "num"
              /\ NearBase(last.forecast_data[d].v, last.daily_averages)

\* C19 as amended: when no pattern matches the value of every forecast date
\* is the base plus a jitter of at most 0.5, when parsing raises
\* JSONDecodeError it is the base itself, and when extraction raises any
\* other exception it is 5.5 whatever the history.
C19_FallbackValues ==
    last.path \in FallbackPaths =>
        /\ DOMAIN last.forecast_data = SevenDaysAfter(last.at)
        /\ \A d \in SevenDaysAfter(last.at) :
              /\ last.forecast_data[d].k = "num"
              /\ last.path = "synth" =>
                    NearBase(last.forecast_data[d].v, last.daily_averages)
              /\ last.path = "decode_error" =>
                    IsBase(last.forecast_data[d].v, last.daily_averages)
              /\ last.path = "other_error" => last.forecast_data[d].v = 550

\* the matched text did not parse as JSON and every date got the mean of a
\* history that is not 5.5
C19_Witness ==
    /\ last.path = "decode_error"
    /\ DOMAIN last.daily_averages # {}
    /\ \A d \in SevenDaysAfter(last.at) :
          /\ IsBase(last.forecast_data[d].v, last.daily_averages)
          /\ last.forecast_data[d].v # 550

RECURSIVE KeepFrom(_, _, _)
\* the tokens of toks from position i on whose position is not in drop
KeepFrom(toks, drop, i) ==
    IF i > Len(toks) THEN <<>>
    ELSE (IF i \in drop THEN <<>> ELSE <<toks[i]>>)
             \o KeepFrom(toks, drop, i + 1)

\* the positions of the leftmost match of pattern p
MatchedPositions(p, toks) ==
    LET i == CHOOSE k \in 1..Len(toks) :
                /\ MatchesAt(p, toks, k)
                /\ \A j \in 1..(k - 1) : ~MatchesAt(p, toks, j)
    IN  i..(i + PatternLen(p) - 1)

RECURSIVE CopiesFrom(_, _, _)
\* the positions of the copies of sub in toks found from position i on, from
\* left to right and without overlap
CopiesFrom(toks, sub, i) ==
    IF i + Len(sub) - 1 > Len(toks) THEN {}
    ELSE IF SubSeq(toks, i, i + Len(sub) - 1) = sub
         THEN (i..(i + Len(sub) - 1)) \cup CopiesFrom(toks, sub, i + Len(sub))
         ELSE CopiesFrom(toks, sub, i + 1)

\* the text the leftmost match of pattern p matched
MatchedText(p, toks) ==
    LET ps == MatchedPositions(p, toks)
    IN  SubSeq(toks, CHOOSE a \in ps : \A b \in ps : a <= b,
                     CHOOSE a \in ps : \A b \in ps : a >= b)

\* the analysis text of the answer is the response unchanged
FallbackTextUnchanged ==
    last.path \in FallbackPaths => last.analysis.text = last.outcome.tokens

\* C20 as stated: when a forecast block is matched and parsed the analysis
\* text of the answer is the response with the matched block removed (white
\* space at the ends aside); when no pattern matches or parsing fails it is
\* the response unchanged.
C20_MatchedBlockRemoved ==
    /\ FallbackTextUnchanged
    /\ last.path = "parsed" =>
          LET toks == last.outcome.tokens
              p == FirstPattern(toks)
          IN  last.analysis.text
                  = Strip(KeepFrom(toks, MatchedPositions(p, toks), 1))

\* C20 as amended: when a forecast block is matched and parsed the analysis
\* text of the answer is the response with every copy of the matched text
\* removed and the white space at its ends stripped; when no pattern matches
\* or parsing fails it is the response unchanged.
C20_MatchedTextRemoved ==
    /\ (last.path \in FallbackPaths =>
            last.analysis.text = last.outcome.tokens)
    /\ last.path = "parsed" =>
          LET toks == last.outcome.tokens
              p == FirstPattern(toks)
          IN  last.analysis.text
                  = Strip(KeepFrom(toks,
                                   CopiesFrom(toks, MatchedText(p, toks), 1),
                                   1))

\* the response held the parsed block twice and the analysis text holds
\* neither copy
C20_Witness ==
    /\ last.path = "parsed"
    /\ LET toks == last.outcome.tokens
           sub == MatchedText(FirstPattern(toks), toks)
       IN  /\ Cardinality(CopiesFrom(toks, sub, 1)) = 2 * Len(sub)
           /\ Len(last.analysis.text) = Len(toks) - 2 * Len(sub)
           /\ \A i \in 1..Len(last.analysis.text) :
                 last.analysis.text[i].t \notin {"fence", "obj"}

----------------------------------------------------------------------------
(* Further claims about the data window, ownership and the profile *)

\* ts lies in the 7 days that end at t
TrailingWeek(ts, t) == t - WindowDays <= ts /\ ts <= t

\* the records of employee e stamped in the 7 days that end at t
OwnRecent(e, t) ==
    [glucose |-> {g \in glucose :
                    g.employee = e /\ TrailingWeek(g.measured_at, t)},
     events |-> {x \in events :
                    x.employee = e /\ TrailingWeek(x.start_time, t)},
     meds |-> {m \in meds : m.employee = e /\ TrailingWeek(m.taken_at, t)},
     stress |-> {n \in stress :
                    n.employee = e /\ TrailingWeek(n.noted_at, t)}]

\* a request for the recommendation of an employee is answered in this step
AnalysisRun == last = NoRequest /\ last' # NoRequest /\ last'.status = 200

\* C21: the data get_comprehensive_analysis collects for employee E (the
\* counts, the insufficient-data decision, the daily averages) is that of
\* E's own glucose, event, medication and stress records stamped within the
\* trailing 7 days, whatever other records the tables hold.
C21_OwnTrailingWeekOnly ==
    [][AnalysisRun =>
        LET own == OwnRecent(last'.user, last'.at)
        IN  /\ last'.counts = [tb \in DOMAIN own |-> Cardinality(own[tb])]
            /\ last'.path = "insufficient"
                  <=> (own.glucose = {} /\ own.events = {})
            /\ last'.path # "insufficient" =>
                  last'.daily_averages = daily_averages(own.glucose)]_vars

----------------------------------------------------------------------------
(* The employee field of the diary serializers.  A request body is a       *)
(* function from the names of the fields it sends to their values.         *)

\* serializers whose employee field can be written
read_only_fields_IdOnly(tb) == {"id"}

\* Meta.read_only_fields of EventSerializer and MealPhotoSerializer
read_only_fields(tb) ==
    IF tb = "events" THEN {"id", "employee", "slug"}
    ELSE {"id", "employee", "uploaded_at"}

\* serializer.validated_data: the fields of the body that are not read-only
validated_data(tb, body) ==
    [f \in DOMAIN body \ read_only_fields(tb) |-> body[f]]

\* serializer.save(**kwargs) on create: validated_data with the keyword
\* arguments on top
save_data(validated, kwargs) == kwargs @@ validated

\* ModelSerializer.update: every validated field is set on the instance
serializer_update(instance, validated) ==
    [f \in DOMAIN instance |->
        IF f \in DOMAIN validated THEN validated[f] ELSE instance[f]]

\* the bodies the clients of the model send: the field of the resource, and
\* possibly an employee
OwnerBodies(tb) ==
    LET base == IF tb = "events"
                THEN {[f \in {"type"} |-> ty] : ty \in InputTypes}
                ELSE {[f \in {"meal"} |-> NoMeal]}
    IN  base \cup {[f \in {"employee"} |-> e] @@ b :
                      e \in Users, b \in base}

\* the answer to a request that wrote a row: the body and the key of the row
Written(u, op, tb, status, body, id) ==
    [who |-> u, op |-> op, tb |-> tb, status |-> status, owners |-> {},
     body |-> body, id |-> id]

\* POST /events/ and POST /meal-photos/ (with an image and no meal):
\* perform_create saves with employee=request.user.employee, which raises
\* for a user without a profile
OwnerCreate(u, tb, body) ==
    /\ IF ~HasEmployee(u)
       THEN /\ req' = Written(u, "owner_create", tb, 500, body, 0)
            /\ UNCHANGED <<events, photos, nextId>>
       ELSE LET data == save_data(validated_data(tb, body),
                                  [f \in {"employee"} |-> u])
            IN  /\ req' = Written(u, "owner_create", tb, 201, body,
                                  nextId[tb])
                /\ nextId' = [nextId EXCEPT ![tb] = @ + 1]
                /\ IF tb = "events"
                   THEN /\ events' = events \cup
                              {[id |-> nextId[tb], employee |-> data.employee,
                                type |-> data.type, start_time |-> now]}
                        /\ UNCHANGED photos
                   ELSE /\ photos' = photos \cup
                              {[id |-> nextId[tb], employee |-> data.employee,
                                meal |-> data.meal]}
                        /\ UNCHANGED events
    /\ UNCHANGED <<now, glucose, meds, stress, last, lastPhoto, role, profile>>
    /\ UNCHANGED telegramVars

\* PATCH /events/<id>/ and PATCH /meal-photos/<id>/: there is no
\* perform_update, the serializer sets the validated fields
OwnerUpdate(u, tb, id, body) ==
    /\ IF LookupStatus(u, tb, id) # 0
       THEN /\ req' = Written(u, "owner_update", tb,
                              LookupStatus(u, tb, id), body, id)
            /\ UNCHANGED <<events, photos>>
       ELSE LET old == RowOf(tb, id)
                new == serializer_update(old, validated_data(tb, body))
            IN  /\ req' = Written(u, "owner_update", tb, 200, body, id)
                /\ IF tb = "events"
                   THEN events' = (events \ {old}) \cup {new}
                          /\ UNCHANGED photos
                   ELSE photos' = (photos \ {old}) \cup {new}
                          /\ UNCHANGED events
    /\ UNCHANGED <<now, glucose, meds, stress, nextId, last, lastPhoto,
                   role, profile>>
    /\ UNCHANGED telegramVars

OwnerPost ==
    /\ req = NoReq
    /\ \E u \in Users, tb \in CrudTables :
          /\ nextId[tb] <= (IF tb = "events" THEN MaxRecords ELSE MaxPhotos)
          /\ \E body \in OwnerBodies(tb) : OwnerCreate(u, tb, body)

OwnerPatch ==
    /\ req = NoReq
    /\ \E u \in Users, tb \in CrudTables :
          \E id \in KeysOf(tb), body \in OwnerBodies(tb) :
              OwnerUpdate(u, tb, id, body)

NextOwner ==
    \/ OwnerPost
    \/ OwnerPatch
    \/ ReceiveAnswer

SpecOwner == InitAccess /\ [][NextOwner]_vars

\* the rows of events and photos with their table
TaggedRows(ev, ph) ==
    {<<"events", r.id, r.employee>> : r \in ev}
        \cup {<<"photos", r.id, r.employee>> : r \in ph}

\* C22: every row a diary viewset creates is owned by the Employee of the
\* requesting user, whatever employee the body names, and no update changes
\* the employee of a row, for patients and doctors alike.
C22_OwnerFromRequest ==
    [][\A n \in TaggedRows(events', photos') :
          IF \E o \in TaggedRows(events, photos) :
                 o[1] = n[1] /\ o[2] = n[2]
          THEN n \in TaggedRows(events, photos)
          ELSE /\ req'.op = "owner_create"
               /\ n[3] = req'.who]_vars

\* a doctor patched the row of a patient with a body that names the doctor
\* as employee; the request was accepted and the row is still the patient's
C22_Witness ==
    /\ req.op = "owner_update"
    /\ req.status = 200
    /\ role[req.who] = "doctor"
    /\ "employee" \in DOMAIN req.body
    /\ req.body.employee = req.who
    /\ \E r \in Rows(req.tb) :
          r.id = req.id /\ r.employee # req.who /\ role[r.employee] = "user"

----------------------------------------------------------------------------
(* create_meal_with_photo, one request at a time *)

\* the numbers of the form as float() takes them: TRUE when every number
\* sent converts
MealCreatePost ==
    /\ lastPhoto = NoAttempt
    /\ \E u \in Users, image \in BOOLEAN, outcome \in AnalysisOutcomes,
          numbers \in BOOLEAN :
          create_meal_with_photo(u, image,
                                 analyze_food_image(outcome).success, numbers)

PlainEventPost ==
    /\ lastPhoto = NoAttempt
    /\ \E u \in Users, ty \in InputTypes : EventCreate(u, ty, now, FALSE)

NextMealCreate ==
    \/ MealCreatePost
    \/ PlainEventPost
    \/ Tick
    \/ ReceiveAnswer

SpecMealCreate == Init /\ [][NextMealCreate]_vars

\* the step is a request to create_meal_with_photo
MealCreateRequest ==
    lastPhoto = NoAttempt /\ lastPhoto' # NoAttempt
        /\ lastPhoto'.via = "meal_with_photo"

----------------------------------------------------------------------------
(* EventSerializer.validate and create: the fields of a meal filled from   *)
(* the analysis of its photo.  A string is the sequence of its characters. *)

\* most Events of this part
MaxFills == 1

Chars(cs) == [k |-> "chars", v |-> cs]

\* the fields validate fills
MealFields == {"name", "calories", "carbs", "sugars", "description"}

\* what a successful analyze_food_image returns: a food_name of 16
\* characters, calories 310.0, carbs 42.5, sugars 12.0, a description
AnalysisResult ==
    [food_name |-> Chars([i \in 1..16 |-> i]), calories |-> Num(31000),
     carbs |-> Num(4250), sugars |-> Num(1200),
     description |-> Chars(<<21, 22>>)]

\* the bodies the clients of the model post: a field is absent, null, empty,
\* zero, or a value of the client's
FillBodies ==
    {[name |-> n, calories |-> c, carbs |-> cb, sugars |-> sg,
      description |-> d] :
        n \in {Absent, Chars(<<>>), Chars(<<31, 32, 33>>)},
        c \in {Absent, Null, Num(0), Num(25000)},
        cb \in {Absent, Num(0)},
        sg \in {Absent, Num(500)},
        d \in {Absent, Chars(<<41>>)}}

\* not data.get(f): a missing key, None, 0 and the empty string are falsy
Falsy(v) == v \in {Absent, Null, Num(0), Chars(<<>>)}

\* analysis['food_name'][:15]
Prefix15(c) ==
    Chars(SubSeq(c.v, 1, IF Len(c.v) < 15 THEN Len(c.v) ELSE 15))

\* the value validate takes from the analysis for field f
FromAnalysis(f, analysis) ==
    IF f = "name" THEN Prefix15(analysis.food_name) ELSE analysis[f]

\* EventSerializer.validate: with type meal, an image and a successful
\* analysis every falsy field is set from the analysis
EventSerializer_validate(ty, image, success, data) ==
    IF ty = "meal" /\ image /\ success
    THEN [f \in MealFields |->
            IF Falsy(data[f]) THEN FromAnalysis(f, AnalysisResult)
            ELSE data[f]]
    ELSE data

\* the row Event.objects.create stores: a field that was not given is null
StoredFields(data) ==
    [f \in MealFields |-> IF data[f] = Absent THEN Null ELSE data[f]]

\* POST /events/ with the fields of a meal
MealFill(u, ty, image, outcome, data) ==
    /\ HasEmployee(u)
    /\ Cardinality(events) < MaxFills
    /\ LET success == analyze_food_image(outcome).success
           row == [id |-> nextId["events"], employee |-> u, type |-> ty,
                   start_time |-> now]
                    @@ StoredFields(
                          EventSerializer_validate(ty, image, success, data))
       IN  /\ events' = events \cup {row}
           /\ req' = [who |-> u, op |-> "meal_fill", tb |-> "events",
                      status |-> 201, owners |-> {u}, type |-> ty,
                      image |-> image, success |-> success, sent |-> data,
                      row |-> row]
           /\ IF image /\ ty = "meal"
              THEN /\ photos' = photos \cup
                         {[id |-> nextId["photos"], employee |-> u,
                           meal |-> nextId["events"]]}
                   /\ nextId' = [nextId EXCEPT !["events"] = @ + 1,
                                               !["photos"] = @ + 1]
              ELSE /\ photos' = photos
                   /\ nextId' = [nextId EXCEPT !["events"] = @ + 1]
    /\ UNCHANGED <<now, glucose, meds, stress, last, lastPhoto, role, profile>>
    /\ UNCHANGED telegramVars

MealFillPost ==
    \E ty \in InputTypes, image \in BOOLEAN, outcome \in {"ok", "timeout"},
       data \in FillBodies :
        MealFill("u1", ty, image, outcome, data)

NextMealFill == MealFillPost

SpecMealFill == Init /\ [][NextMealFill]_vars

\* C24: when a meal Event is created with a photo and the analysis
\* succeeds, every value the client supplied for name, calories, carbs,
\* sugars or description, a numeric 0 included, is stored as supplied, and
\* the fields the client did not supply hold the values of the analysis.
C24_SuppliedValuesKept ==
    (req.op = "meal_fill" /\ req.type = "meal" /\ req.image /\ req.success)
        => \A f \in MealFields :
              IF req.sent[f] # Absent
              THEN req.row[f] = req.sent[f]
              ELSE req.row[f] = FromAnalysis(f, AnalysisResult)

----------------------------------------------------------------------------
(* PUT /profile/update/: ProfileUpdateView.put and UserSerializer.update.  *)
(* A field the body does not send is "absent".                             *)

\* the employee block of a body that has none
NoBlock == [sent |-> FALSE, role |-> "absent", phone |-> "absent"]

\* the bodies the clients of the model send: an email (valid or not), a
\* first name, and an employee block with a role (a choice or not) and a
\* phone, each of them or the whole block possibly omitted
ProfileBodies ==
    {[email |-> e, first_name |-> f, employee |-> emp] :
        e \in {"absent", "new", "invalid"},
        f \in {"absent", "new"},
        emp \in {NoBlock} \cup
                {[sent |-> TRUE, role |-> r, phone |-> ph] :
                    r \in {"absent", "doctor", "chief"},
                    ph \in {"absent", "new"}}}

\* serializer.is_valid: EmailField, and the choices of Employee.role in the
\* nested EmployeeSerializer
is_valid(body) ==
    /\ body.email # "invalid"
    /\ body.employee.role \in ROLE_CHOICES \cup {"absent"}

\* validated_data.get(f, current)
GetOr(v, current) == IF v = "absent" THEN current ELSE v

\* ProfileUpdateView.put: 401 without a token, 400 when the body is not
\* valid; then UserSerializer.update, whose first statement
\* validated_data.pop('employee') raises KeyError when the block was omitted
\* and whose second, instance.employee, raises without a profile (500, before
\* anything is saved)
ProfileStatus(u, body) ==
    IF ~is_authenticated(u) THEN 401
    ELSE IF ~is_valid(body) THEN 400
    ELSE IF ~body.employee.sent THEN 500
    ELSE IF ~HasEmployee(u) THEN 500
    ELSE 200

ProfileUpdate(u, body) ==
    /\ req' = [who |-> u, op |-> "profile_update", tb |-> "profile",
               status |-> ProfileStatus(u, body), owners |-> {},
               body |-> body]
    /\ IF ProfileStatus(u, body) = 200
       THEN /\ profile' = [profile EXCEPT
                  ![u] = [email |-> GetOr(body.email, @.email),
                          first_name |-> GetOr(body.first_name, @.first_name),
                          phone |-> GetOr(body.employee.phone, @.phone)]]
            /\ role' = [role EXCEPT ![u] = GetOr(body.employee.role, @)]
       ELSE UNCHANGED <<role, profile>>
    /\ UNCHANGED <<now, glucose, events, meds, stress, photos, nextId, last,
                   lastPhoto>>
    /\ UNCHANGED telegramVars

ProfilePut ==
    /\ req = NoReq /\ lastPhoto = NoAttempt
    /\ \E u \in Requesters, body \in ProfileBodies : ProfileUpdate(u, body)

ProfileEventPost ==
    /\ req = NoReq /\ lastPhoto = NoAttempt
    /\ nextId["events"] <= MaxRecords
    /\ \E u \in Users : EventCreate(u, "meal", now, FALSE)

ProfileDiaryListGet ==
    /\ req = NoReq /\ lastPhoto = NoAttempt
    /\ \E u \in Users : DiaryList(u, "events")

ProfileDoctorListGet ==
    /\ req = NoReq /\ lastPhoto = NoAttempt
    /\ \E u \in Users : DoctorList(u, "events")

NextProfile ==
    \/ ProfilePut
    \/ ProfileEventPost
    \/ ProfileDiaryListGet
    \/ ProfileDoctorListGet
    \/ ReceiveAnswer

SpecProfile == InitAccess /\ [][NextProfile]_vars

\* C25: an account with the role user keeps the visibility of a patient: no
\* request makes its role doctor, and no answer to a request of an account
\* that held the role user before the request shows a row of another
\* employee.
C25_UserStaysPatient ==
    [][/\ \A u \in Users : role[u] = "user" => role'[u] # "doctor"
       /\ (req = NoReq /\ req' # NoReq /\ req'.who \in Users
             /\ role[req'.who] = "user") =>
                req'.owners \subseteq {req'.who}]_vars

\* the step is a request to the profile update by a user with a profile
ProfileRequest ==
    /\ req = NoReq /\ req' # NoReq
    /\ req'.op = "profile_update"
    /\ req'.who \in Users
    /\ HasEmployee(req'.who)

\* C30: the profile update accepts a body with any of the user fields, of
\* the employee fields, or the whole employee block omitted: a valid body is
\* answered 200, every field it sends is stored and every field it omits
\* keeps its value; a body that fails validation is answered 400 and
\* changes neither the User nor the Employee.
C30_PartialProfileUpdate ==
    [][ProfileRequest =>
        LET u == req'.who
            b == req'.body
            sent == [email |-> b.email, first_name |-> b.first_name,
                     phone |-> b.employee.phone]
            sentRole == b.employee.role
        IN  /\ \A v \in Users \ {u} :
                  role'[v] = role[v] /\ profile'[v] = profile[v]
            /\ IF is_valid(b)
               THEN /\ req'.status = 200
                    /\ \A f \in DOMAIN sent :
                          profile'[u][f] = IF sent[f] = "absent"
                                           THEN profile[u][f] ELSE sent[f]
                    /\ role'[u] = IF sentRole = "absent" THEN role[u]
                                  ELSE sentRole
               ELSE /\ req'.status = 400
                    /\ role'[u] = role[u]
                    /\ profile'[u] = profile[u]]_vars

----------------------------------------------------------------------------
(* Further claims about the Telegram codes *)

\* worker w ends a confirmation with success in this step
Confirmed(w) ==
    /\ conf[w].pc = "verified"
    /\ conf'[w].pc = "idle"
    /\ resp'.answer = "ok"

\* the row was marked used when it was looked up, and a code generated for
\* the same user after it exists
Superseded(rec) ==
    /\ rec.is_used
    /\ \E j \in DOMAIN uses : j > rec.id /\ uses[j].user = rec.user

\* C26: generating a new code for a user invalidates the codes issued to
\* that user earlier: no confirmation succeeds with a code after which a
\* newer code of the same user was generated.
C26_NewCodeInvalidatesOld ==
    [][\A w \in Workers : Confirmed(w) => ~Superseded(conf[w].rec)]_vars

\* TelegramProfileView.get: Employee.objects.get(telegram_id=telegram_id);
\* DoesNotExist is answered 404, MultipleObjectsReturned is not caught
TelegramProfileView_get(tg) ==
    LET found == {u \in Employees : telegram_id[u] = tg}
    IN  IF found = {} THEN 404
        ELSE IF Cardinality(found) = 1 THEN 200
        ELSE 500

\* C27: a telegram_id is bound to at most one Employee, so the profile
\* lookup by telegram_id finds a single profile (200) or none (404).
C27_TelegramIdOfOneEmployee ==
    \A tg \in TgIds :
        /\ Cardinality({u \in Employees : telegram_id[u] = tg}) <= 1
        /\ TelegramProfileView_get(tg) \in {200, 404}

----------------------------------------------------------------------------
(* Further claims about the meal photos *)

\* C28: in every reachable state every MealPhoto whose meal is set has the
\* owner of that Event: MealPhoto.employee equals meal.employee.
C28_PhotoOwnerIsMealOwner ==
    \A ph \in photos :
        ph.meal # NoMeal =>
            \A e \in events : e.id = ph.meal => e.employee = ph.employee

----------------------------------------------------------------------------
(* The shape of the result on every return path                            *)

\* the day of the clock reading a return path takes its dates from: the
\* except branch reads the clock again, every other path uses the reading
\* made at the start of the call
ClockOf(r) == IF r.path = "error" THEN r.at2 ELSE r.at

\* C29: on every return path of get_comprehensive_analysis (insufficient
\* data, extracted forecast, fallback forecast, error) the result carries an
\* analysis and a chart_data, and the keys of chart_data are exactly the
\* seven days that follow the day of the clock reading of that path,
\* beginning with the next day and leaving that day itself out.
C29_SevenDatesOnEveryPath ==
    last.status = 200 =>
        /\ last.path \in {"insufficient", "error"} \cup ValidatedPaths
        /\ last.analysis.kind # "none"
        /\ DOMAIN last.chart_data = SevenDaysAfter(ClockOf(last))
        /\ Cardinality(DOMAIN last.chart_data) = 7
        /\ ClockOf(last) \notin DOMAIN last.chart_data
        /\ ClockOf(last) + 1 \in DOMAIN last.chart_data

\* the error path, taken after midnight has passed since the call began
C29_Witness ==
    /\ last.status = 200
    /\ last.path = "error"
    /\ last.at2 = last.at + 1
    /\ DOMAIN last.chart_data = SevenDaysAfter(last.at2)

============================================================================
